---- MODULE Spec2Model ----
(***************************************************************************)
(* The asynchronous job pipeline of ocrbase: admission (JobService),       *)
(* the BullMQ work items, the worker's processJob and its "failed"         *)
(* handler, and the realtime gateway.  One job is followed from its        *)
(* insertion to its terminal state.                                        *)
(*                                                                         *)
(* Strings the code slices or matches (error names, error messages, the    *)
(* encoded UnrecoverableError message) are sequences of tokens: a token    *)
(* is a run of characters the code never looks into, or one of the         *)
(* separators "[cause=", "]" and " ".                                      *)
(***************************************************************************)
EXTENDS Integers, Sequences, FiniteSets, TLC

\* ------------------------------------------------------------------ bounds
MaxConfirms == 2      \* confirmUpload calls issued for the presigned job
MaxAttempts == 2      \* largest opts.attempts a work item is enqueued with
MaxStalled  == 1      \* times the queue redelivers one work item after a stall
MaxConns    == 1      \* realtime connections opened for the job
MaxWsAttempts == 3    \* largest wsMaxReconnectAttempts the SDK is configured with
MaxParts    == 2      \* parts (prose, JSON values) of one LLM response text
MaxObjects  == 3      \* connection objects the web client creates for one jobId
MaxRetains  == 2      \* retain() calls made by the web client
MaxCalls    == 2      \* calls of one release function
MaxListeners == 1     \* listeners added to the web client's connections
MaxHandlers == 2      \* handlers that call subscribeToJob for the channel
MaxReplayObjects == 1 \* connection objects created where listeners are added

\* --------------------------------------------------------------- constants
NULL == <<>>          \* a null / absent string column

JobId == "job_x429y"  \* the job's id as it appears inside messages

Calls == 1..MaxConfirms
Items == 1..MaxConfirms           \* the k-th addJob call creates item k
Conns == 1..MaxConns

Terminal == {"completed", "failed"}

\* ------------------------------------------------------------- job.worker.ts
UNRECOVERABLE_CODE_PREFIX == "[cause="

\* Tokens in which RETRYABLE_MESSAGE_PATTERN finds a match (case-insensitive).
RetryableTokens ==
  { JobId, "Gateway Timeout", "429 Too Many Requests", "connect ECONNREFUSED" }

\* Tokens in which NON_RETRYABLE_MESSAGE_PATTERN finds a match.
NonRetryableTokens ==
  { "Job not found: ", "No file or URL provided for job",
    "OPENROUTER_API_KEY is not configured" }

RETRYABLE_MESSAGE_PATTERN(message) ==
  \E k \in DOMAIN message : message[k] \in RetryableTokens

NON_RETRYABLE_MESSAGE_PATTERN(message) ==
  \E k \in DOMAIN message : message[k] \in NonRetryableTokens

\* An Error object: its class (for instanceof), its name and its message.
MkError(cls, name, message) == [cls |-> cls, name |-> name, message |-> message]

\* The errors an attempt can meet, by the place that raises them.
ErrJobNotFound == MkError("Error", "Error", <<"Job not found: ", JobId>>)
ErrNoSource    == MkError("Error", "Error", <<"No file or URL provided for job">>)
ErrFetch(statusText) ==
  MkError("Error", "Error", <<"Failed to fetch file from URL: ", statusText>>)
StatusTexts    == {"Service Unavailable", "Gateway Timeout"}
ErrStorage     == MkError("Error", "Error", <<"connect ECONNREFUSED">>)
ErrOcr         == MkError("Error", "Error", <<"OCR request failed">>)
ErrLlmParse    ==
  MkError("LlmJsonParseError", "LlmJsonParseError",
          <<"JSON Parse error: Unable to parse JSON string", " ", "(preview: x)">>)
ErrNoKey       == MkError("Error", "Error", <<"OPENROUTER_API_KEY is not configured">>)
ErrLlmApi      == MkError("Error", "Error", <<"429 Too Many Requests">>)

toErrorContext(error) ==
  [ code    |-> IF error.name # "" THEN <<error.name>> ELSE <<"UNKNOWN_ERROR">>,
    message |-> IF error.message # <<>> THEN error.message ELSE <<"Unknown error">> ]

getErrorMessage(error) == error.message

isRetryableError_PatternOrderSwapped(error) ==
  IF error.cls = "UnrecoverableError" THEN FALSE
  ELSE IF error.cls = "LlmJsonParseError" THEN FALSE
  ELSE IF RETRYABLE_MESSAGE_PATTERN(getErrorMessage(error)) THEN TRUE
  ELSE IF NON_RETRYABLE_MESSAGE_PATTERN(getErrorMessage(error)) THEN FALSE
  ELSE TRUE

isRetryableError(error) ==
  IF error.cls = "UnrecoverableError" THEN FALSE
  ELSE IF error.cls = "LlmJsonParseError" THEN FALSE
  ELSE IF NON_RETRYABLE_MESSAGE_PATTERN(getErrorMessage(error)) THEN FALSE
  ELSE IF RETRYABLE_MESSAGE_PATTERN(getErrorMessage(error)) THEN TRUE
  ELSE TRUE

encodeUnrecoverableMessage(errorCode, errorMessage) ==
  <<UNRECOVERABLE_CODE_PREFIX>> \o errorCode \o <<"]", " ">> \o errorMessage

\* String.prototype.indexOf on tokens: the first position of tok, 0 when absent.
IndexOf(s, tok) ==
  IF \E k \in DOMAIN s : s[k] = tok
    THEN CHOOSE k \in DOMAIN s : s[k] = tok /\ \A m \in 1..(k - 1) : s[m] # tok
    ELSE 0

RECURSIVE TrimStart(_)
TrimStart(s) == IF s # <<>> /\ Head(s) = " " THEN TrimStart(Tail(s)) ELSE s

RECURSIVE TrimEnd(_)
TrimEnd(s) ==
  IF s # <<>> /\ s[Len(s)] = " " THEN TrimEnd(SubSeq(s, 1, Len(s) - 1)) ELSE s

Trim(s) == TrimEnd(TrimStart(s))

\* The null result of decodeUnrecoverableMessage.
NotDecoded == [ok |-> FALSE, code |-> NULL, message |-> NULL]

decodeUnrecoverableMessage_NoTrim(message) ==
  IF message = <<>> \/ Head(message) # UNRECOVERABLE_CODE_PREFIX THEN NotDecoded
  ELSE LET closingBracket == IndexOf(message, "]") IN
       IF closingBracket <= 2 THEN NotDecoded
       ELSE LET code   == SubSeq(message, 2, closingBracket - 1)
                reason == SubSeq(message, closingBracket + 1, Len(message))
            IN  [ ok      |-> TRUE,
                  code    |-> code,
                  message |-> IF reason # <<>> THEN reason
                              ELSE <<"Unrecoverable error">> ]

\* The prefix is token 1, so a "]" at token 2 or earlier (or none at all) is
\* closingBracket <= UNRECOVERABLE_CODE_PREFIX.length.
decodeUnrecoverableMessage(message) ==
  IF message = <<>> \/ Head(message) # UNRECOVERABLE_CODE_PREFIX THEN NotDecoded
  ELSE LET closingBracket == IndexOf(message, "]") IN
       IF closingBracket <= 2 THEN NotDecoded
       ELSE LET code   == SubSeq(message, 2, closingBracket - 1)
                reason == Trim(SubSeq(message, closingBracket + 1, Len(message)))
            IN  [ ok      |-> TRUE,
                  code    |-> code,
                  message |-> IF reason # <<>> THEN reason
                              ELSE <<"Unrecoverable error">> ]

\* What the catch block of processJob throws for the error it caught.
CatchRethrow(error) ==
  IF ~isRetryableError(error)
    THEN MkError("UnrecoverableError", "UnrecoverableError",
                 encodeUnrecoverableMessage(toErrorContext(error).code,
                                            toErrorContext(error).message))
    ELSE error

shouldRetry_CountsNextAttempt(error, attempts, maxAttempts) ==
  error.name # "UnrecoverableError" /\ attempts + 1 < maxAttempts

shouldRetry_OffByOne(error, attempts, maxAttempts) ==
  error.name # "UnrecoverableError" /\ attempts <= maxAttempts

shouldRetry(error, attempts, maxAttempts) ==
  error.name # "UnrecoverableError" /\ attempts < maxAttempts

\* The synchronous part of worker.on("failed"): the arguments of failJob.
FailedHandlerCall(error, attempts, maxAttempts) ==
  LET name    == IF error.name # "" THEN <<error.name>> ELSE <<"PROCESSING_ERROR">>
      msg     == IF error.message # <<>> THEN error.message
                 ELSE <<"Unknown error occurred">>
      decoded == IF error.name = "UnrecoverableError"
                   THEN decodeUnrecoverableMessage(msg) ELSE NotDecoded
  IN  [ errorCode    |-> IF decoded.ok THEN decoded.code ELSE name,
        errorMessage |-> IF decoded.ok THEN decoded.message ELSE msg,
        shouldRetry  |-> shouldRetry(error, attempts, maxAttempts) ]


\* -------------------------------------------------------------------- state
VARIABLES
  job,            \* the job's row in the jobs table
  api,            \* the admission call that created the job: its path and position
  blob,           \* TRUE once an object exists at the job's fileKey
  confirm,        \* confirm[k]: position / result of the k-th confirmUpload call
  items,          \* items[k]: the BullMQ work item made by the k-th addJob call
  calls,          \* failJob calls started by worker.on("failed"), not yet written
  upstream,       \* the Redis subscription of this process to channel job:<id>
  ready,          \* the subscriptionReady entry of the channel
  subscriptions,  \* the handler set of the channel: the connections registered
  inbox,          \* messages Redis has sent to this process, not yet dispatched
  conn,           \* conn[c]: a realtime connection bound to the job
  waiter,         \* the SDK's waitForCompletedJob call for the job
  published,      \* history: the terminal events publishJobUpdate was called with
  confirmBy,      \* history: confirmBy[k]: the organization of the k-th confirmUpload call
  request,        \* a direct submission in createJobHandler
  llm,            \* an invocation of llmService.processExtraction
  sdk,            \* a parse / extract call of the SDK
  registry,       \* the web client's shared realtime connections
  cache,          \* the web client's query cache for the job, and the hooks feeding it
  bus,            \* subscribeToJob / unsubscribeFromJob calls made on the realtime service
  failures        \* one work item's attempts and the failures decisions taken on its failures

busVars == <<upstream, ready, subscriptions>>
rtVars == <<upstream, ready, subscriptions, conn>>
serverVars == <<job, api, blob, confirm, items, calls, upstream, ready,
                subscriptions, inbox, conn, published, confirmBy>>
otherVars == <<request, llm, sdk, registry, cache, bus, failures>>
vars == <<job, api, blob, confirm, items, calls, upstream, ready, subscriptions,
          inbox, conn, waiter, published, confirmBy, request, llm, sdk, registry,
          cache, bus, failures>>

JobTypes == {"parse", "extract"}

\* The organization the job is created for, and another one.
OwnerOrg == "org_1"
OtherOrg == "org_2"
Organizations == {OwnerOrg, OtherOrg}

NoJob ==
  [ exists |-> FALSE, organizationId |-> OwnerOrg, type |-> "parse",
    schema |-> FALSE, status |-> "pending", fileKey |-> FALSE,
    sourceUrl |-> FALSE, markdownResult |-> FALSE, jsonResult |-> FALSE,
    errorCode |-> NULL, errorMessage |-> NULL ]

\* attempts is the number of attempts the queue gives the item; optsGiven:
\* the item was added with opts.attempts (else the queue gives one attempt).
NoItem == [ state |-> "none", attempts |-> 1, attemptsMade |-> 0, pc |-> "-",
            stalled |-> 0, lastError |-> MkError("", "", <<>>),
            optsGiven |-> TRUE ]

\* --------------------------------------------------------- realtime messages
StatusMsg(status) == [type |-> "status", status |-> status]
CompletedMsg      == [type |-> "completed", status |-> "completed"]
JobFailedMsg      == [type |-> "error", status |-> "failed"]

\* How many completed events and error events with status failed were
\* published for the job.
NothingPublished == [completed |-> 0, failed |-> 0]

\* publishJobUpdate: Redis hands the message to this process only while its
\* subscription to the channel is in effect; the bus keeps no history.
publishJobUpdate(box, message) ==
  IF upstream = "active" THEN Append(box, message) ELSE box

\* ----------------------------------------------------- lib/job-status (rows)
\* db.update(jobs).set(...).where(eq(jobs.id, jobId)): no row, no change.
updateJobStatus(row, status, withMarkdown) ==
  IF ~row.exists THEN row
  ELSE [row EXCEPT !.status = status,
                   !.markdownResult = IF withMarkdown THEN TRUE ELSE @]

completeJob(row, withJson) ==
  IF ~row.exists THEN row
  ELSE [row EXCEPT !.status = "completed",
                   !.markdownResult = TRUE,
                   !.jsonResult = IF withJson THEN TRUE ELSE @]

failJob(row, errorCode, errorMessage, retry) ==
  IF ~row.exists THEN row
  ELSE [row EXCEPT !.errorCode = errorCode,
                   !.errorMessage = errorMessage,
                   !.status = IF retry THEN @ ELSE "failed"]

\* ------------------------------------------------------------ services/queue
FirstFree(its) == CHOOSE k \in Items : its[k].state = "none" /\
                                       \A m \in 1..(k - 1) : its[m].state # "none"

\* queue.add: a new work item in "wait".
addJob(its, attempts) ==
  [its EXCEPT ![FirstFree(its)] =
     [NoItem EXCEPT !.state = "wait", !.attempts = attempts]]

\* BullMQ after the processor threw: the attempt is counted; the item is failed
\* for good on an UnrecoverableError or when its attempts are used up, else it
\* goes back to wait.
moveToFailed(item, thrown, caught) ==
  LET made == item.attemptsMade + 1 IN
  [item EXCEPT !.attemptsMade = made,
               !.pc = "-",
               !.lastError = caught,
               !.state = IF thrown.cls = "UnrecoverableError" \/ made >= item.attempts
                           THEN "failed" ELSE "wait"]

\* A realtime connection before the request arrives.  sent is what the
\* subscriber was sent, in order; gone: the subscriber has disconnected (SSE
\* stream cancelled, WebSocket closed by the client); closed: the gateway has
\* closed the stream; reply: the HTTP status of the SSE response, or the text
\* of the error the WebSocket was closed with.  The other fields are history,
\* read by no guard: caller (who asked), lateJoin (the first lookup found the
\* job terminal), inWindow (the job was completed after the first lookup and
\* before the Redis subscription was in effect), stale (bus messages that
\* were already published when the row was re-fetched and are not yet
\* dispatched), overtaken (a bus message published after the re-fetch was
\* handed to the callback before the initial event was sent) and snapLate (the
\* initial event was a status event sent after such a message).
NoConn == [ pc |-> "idle", profile |-> "sse", first |-> "pending",
            snap |-> "pending", sent |-> <<>>, closed |-> FALSE, gone |-> FALSE,
            reply |-> "none", caller |-> "none",
            lateJoin |-> FALSE, inWindow |-> FALSE,
            stale |-> 0, overtaken |-> FALSE, snapLate |-> FALSE ]

\* ------------------------------------------- packages/sdk: waitForCompletedJob
DEFAULT_WS_RECONNECT_BASE_DELAY_MS == 500

\* The ping answer of jobsWebSocket.message.
PongMsg == [type |-> "pong", status |-> "none"]

NoMsg == [type |-> "none", status |-> "none"]

\* What the promise resolved with: the completed payload (error: null), or an
\* SDK error with its status; by and message tell which call of finish it was.
NoResult == [kind |-> "none", status |-> 0, by |-> "none", message |-> NoMsg]

CompletedResult(message) ==
  [kind |-> "completed", status |-> 0, by |-> "message", message |-> message]

SdkError(status, by, message) ==
  [kind |-> "error", status |-> status, by |-> by, message |-> message]

\* The closure of one waitForCompletedJob call.  ws is the variable (wsSet: it
\* is not null), sock the readyState of the socket created last; opened and
\* delays are history: sockets created, and the reconnect delays scheduled.
WaiterFor(max) ==
  [ pc |-> "idle", wsMaxReconnectAttempts |-> max, attempts |-> 0,
    settled |-> FALSE, result |-> NoResult, wsSet |-> FALSE, sock |-> "none",
    reconnectTimer |-> 0, timeout |-> FALSE, opened |-> 0, delays |-> <<>> ]

cleanup_KeepsSocket(w) ==
  [w EXCEPT !.timeout = FALSE, !.reconnectTimer = 0, !.wsSet = FALSE]

cleanup(w) ==
  [w EXCEPT !.timeout = FALSE,
            !.reconnectTimer = 0,
            !.sock = IF w.wsSet /\ w.sock \in {"CONNECTING", "OPEN"}
                       THEN "CLOSING" ELSE @,
            !.wsSet = FALSE]

finish(w, result) ==
  IF w.settled THEN w
  ELSE [cleanup([w EXCEPT !.settled = TRUE]) EXCEPT !.result = result, !.pc = "resolved"]

scheduleReconnect_OffByOne(w) ==
  IF w.settled THEN w
  ELSE IF w.attempts > w.wsMaxReconnectAttempts
    THEN finish(w, SdkError(503, "retries", NoMsg))
  ELSE LET delay == DEFAULT_WS_RECONNECT_BASE_DELAY_MS *
                      2 ^ (IF w.attempts - 1 > 0 THEN w.attempts - 1 ELSE 0)
       IN  [w EXCEPT !.reconnectTimer = delay,
                     !.delays = Append(@, [after |-> w.opened,
                                           attempts |-> w.attempts,
                                           delay |-> delay])]

scheduleReconnect_IgnoresSettled(w) ==
  IF w.attempts >= w.wsMaxReconnectAttempts
    THEN finish(w, SdkError(503, "retries", NoMsg))
  ELSE LET delay == DEFAULT_WS_RECONNECT_BASE_DELAY_MS *
                      2 ^ (IF w.attempts - 1 > 0 THEN w.attempts - 1 ELSE 0)
       IN  [w EXCEPT !.reconnectTimer = delay,
                     !.delays = Append(@, [after |-> w.opened,
                                           attempts |-> w.attempts,
                                           delay |-> delay])]

scheduleReconnect(w) ==
  IF w.settled THEN w
  ELSE IF w.attempts >= w.wsMaxReconnectAttempts
    THEN finish(w, SdkError(503, "retries", NoMsg))
  ELSE LET delay == DEFAULT_WS_RECONNECT_BASE_DELAY_MS *
                      2 ^ (IF w.attempts - 1 > 0 THEN w.attempts - 1 ELSE 0)
       IN  [w EXCEPT !.reconnectTimer = delay,
                     !.delays = Append(@, [after |-> w.opened,
                                           attempts |-> w.attempts,
                                           delay |-> delay])]

handleMessage_IgnoresCompleted(w, message) ==
  IF message.type = "error" THEN finish(w, SdkError(500, "message", message))
  ELSE w

\* Every message of the gateway is a JSON object carrying the job's id and a
\* type, so the three early returns are not taken.
handleMessage(w, message) ==
  IF message.type = "completed" THEN finish(w, CompletedResult(message))
  ELSE IF message.type = "error" THEN finish(w, SdkError(500, "message", message))
  ELSE w

\* What realtime.createWebSocket does: returns a socket, throws an Error, or
\* throws something else.
CreateOutcomes == {"socket", "throwsError", "throwsOther"}

connect(w, outcome) ==
  IF w.settled THEN w
  ELSE LET a == [w EXCEPT !.attempts = @ + 1, !.reconnectTimer = 0] IN
       IF outcome = "socket"
         THEN [a EXCEPT !.wsSet = TRUE, !.sock = "CONNECTING", !.opened = @ + 1]
       ELSE IF outcome = "throwsError"
         THEN finish(a, SdkError(500, "createWebSocket", NoMsg))
       ELSE scheduleReconnect(a)


\* ------------------------------------------------- the calls checked apart
\* No direct submission is under way.
NoRequest == [pc |-> "none", body |-> [file |-> FALSE, url |-> [given |-> FALSE, text |-> <<>>]],
              error |-> "none"]
\* No processExtraction call is under way.
NoExtraction ==
  [ pc |-> "none", hasKey |-> FALSE,
    schema |-> [present |-> FALSE, required |-> {}],
    calls |-> 0, first |-> <<>>, repair |-> <<>>, repaired |-> FALSE,
    data |-> [kind |-> "none", keys |-> {}], error |-> "none" ]
\* No parse / extract call of the SDK is under way.  fileReads, requests and
\* sockets count what the call did: local files read, HTTP requests sent,
\* realtime connections opened.  schemaId: extract's variable holds the id of
\* the temporary schema; schema: the temporary schema on the server ("none",
\* "created", "deleted"); deleteCalls: DELETE requests sent for it.
NoSdkCall ==
  [ pc |-> "none", fn |-> "parse", apiKey |-> "undefined", env |-> "unset",
    file |-> "path", fileReads |-> 0, requests |-> 0, sockets |-> 0,
    error |-> "none", keepSchema |-> FALSE, schemaId |-> FALSE,
    schema |-> "none", deleteCalls |-> 0 ]
\* The web client's registry for one jobId.  connections is the Map entry
\* (0: none), connection the objects getJobConnection has made with their
\* closure variables, release the functions retain() has returned.
MAX_RETRIES == 5
JobConnections == 1..MaxObjects
Releases == 1..MaxRetains
Transports == {"eventSource", "webSocket"}
Listeners == 1..MaxListeners
\* The job messages the gateway sends, by type and data.status; an error
\* message without status is one of the gateway's own (Unauthorized, Job not
\* found, ...).
NoMessage == [type |-> "null", status |-> "null"]
WebMessages ==
  { [type |-> "status", status |-> "processing"],
    [type |-> "completed", status |-> "completed"],
    [type |-> "error", status |-> "failed"],
    [type |-> "error", status |-> "undefined"] }
\* terminal is terminal.message.  History: heard is the last completed or
\* failed message the connection's sockets delivered, plain whether they
\* delivered an error message without status.
NoConnection ==
  [ created |-> FALSE, refCount |-> 0, destroyed |-> FALSE, socket |-> "null",
    retries |-> 0, retryTimeout |-> FALSE, pendingClose |-> FALSE,
    terminal |-> NoMessage, heard |-> NoMessage, plain |-> FALSE,
    error |-> "none" ]
\* A listener: the connection it was added to (0: not added) and the message
\* addListener called it with.  History: heard and plain of the connection
\* when the listener was added.
NoListener == [on |-> 0, replay |-> NoMessage, heard |-> NoMessage, plain |-> FALSE]
\* Calls on the realtime service by the handlers of one channel: redis is
\* whether REDIS_URL is configured, call[h] the position of handler h's
\* subscribeToJob call.  History: added[h], the call put the handler into the
\* set; by[h], what ended the call's wait.
\* No work item yet.  log is history: one entry per failed attempt.
NoFailures == [opts |-> <<>>, attemptsMade |-> 0, state |-> "none", log |-> <<>>]

Handlers == 1..MaxHandlers
NoBus ==
  [ redis |-> TRUE, call |-> [h \in Handlers |-> "idle"],
    added |-> [h \in Handlers |-> FALSE],
    by |-> [h \in Handlers |-> "none"] ]
\* The web client's query cache for the job and the two hooks that feed it.
\* job is the status in the ["job", jobId] data and list the status of the
\* job's row in the ["jobs"] data ("none": no data / no row); detail is the
\* useJobRealtime effect, sidebar and terminalStatuses are
\* useProcessingJobsRealtime's listener for the job and its
\* terminalStatusesRef entry.
\* History: recorded is the terminal status a hook took from a realtime
\* message.
NoCache ==
  [ job |-> "none", list |-> "none", detail |-> "idle", invalidated |-> FALSE,
    mounted |-> FALSE, sidebar |-> FALSE, terminalStatuses |-> "none",
    recorded |-> "none" ]
NoRelease == [made |-> FALSE, connection |-> 1, released |-> FALSE, calls |-> 0]
NoRegistry ==
  [ transport |-> "eventSource", connections |-> 0,
    connection |-> [o \in JobConnections |-> NoConnection],
    release |-> [h \in Releases |-> NoRelease],
    listener |-> [l \in Listeners |-> NoListener] ]

\* ---------------------------------------------------------------------- Init
Init ==
  /\ job = NoJob
  /\ api = [pc |-> "none", path |-> "none"]
  /\ blob = FALSE
  /\ confirm = [k \in Calls |-> "idle"]
  /\ items = [k \in Items |-> NoItem]
  /\ calls = {}
  /\ upstream = "none"
  /\ ready = "absent"
  /\ subscriptions = {}
  /\ inbox = <<>>
  /\ conn = [c \in Conns |-> NoConn]
  /\ waiter = WaiterFor(MaxWsAttempts)
  /\ published = NothingPublished
  /\ confirmBy = [k \in Calls |-> "none"]
  /\ cache = NoCache
  /\ bus = NoBus
  /\ failures = NoFailures
  /\ request = NoRequest
  /\ llm = NoExtraction
  /\ sdk = NoSdkCall
  /\ registry = NoRegistry

\* ------------------------------------------------- modules/jobs: JobService
\* The inserted row.  schema: the row's schemaId refers to a stored schema
\* (the relation getJobById loads with the row); it is read for extract jobs
\* only.
InsertedRow(type, hasUrl, schema) ==
  [NoJob EXCEPT !.exists = TRUE, !.type = type, !.status = "pending",
                !.sourceUrl = hasUrl, !.schema = schema]

\* The type and the schema reference a job can be submitted with.
Submissions ==
  {[type |-> "parse", schema |-> FALSE]} \cup
  {[type |-> "extract", schema |-> b] : b \in BOOLEAN}

\* create: the insert.
CreateInsert ==
  /\ api.pc = "none"
  /\ \E b \in Submissions : job' = InsertedRow(b.type, FALSE, b.schema)
  /\ api' = [pc |-> "upload", path |-> "direct"]
  /\ UNCHANGED <<blob, confirm, items, calls, inbox, rtVars, waiter, published, confirmBy, otherVars>>

\* create: StorageService.uploadFile resolves or rejects; a rejection leaves
\* create through the exception.
CreateUpload ==
  /\ api.pc = "upload"
  /\ \E ok \in BOOLEAN :
       /\ blob' = ok
       /\ api' = [api EXCEPT !.pc = IF ok THEN "setKey" ELSE "threwUpload"]
  /\ UNCHANGED <<job, confirm, items, calls, inbox, rtVars, waiter, published, confirmBy, otherVars>>

\* create: set fileKey, then addJob, which resolves or rejects.
CreateSetFileKey ==
  /\ api.pc = "setKey" /\ api.path = "direct"
  /\ job' = IF job.exists THEN [job EXCEPT !.fileKey = TRUE] ELSE job
  /\ api' = [api EXCEPT !.pc = "enqueue"]
  /\ UNCHANGED <<blob, confirm, items, calls, inbox, rtVars, waiter, published, confirmBy, otherVars>>

CreateEnqueue ==
  /\ api.pc = "enqueue" /\ api.path = "direct"
  /\ \/ /\ \E n \in 1..MaxAttempts : items' = addJob(items, n)
        /\ api' = [api EXCEPT !.pc = "returned"]
     \/ /\ items' = items
        /\ api' = [api EXCEPT !.pc = "threwEnqueue"]
  /\ UNCHANGED <<job, blob, confirm, calls, inbox, rtVars, waiter, published, confirmBy, otherVars>>

\* createFromUrl: the insert, then addJob.
CreateFromUrlInsert ==
  /\ api.pc = "none"
  /\ \E b \in Submissions : job' = InsertedRow(b.type, TRUE, b.schema)
  /\ api' = [pc |-> "enqueue", path |-> "url"]
  /\ UNCHANGED <<blob, confirm, items, calls, inbox, rtVars, waiter, published, confirmBy, otherVars>>

CreateFromUrlEnqueue ==
  /\ api.pc = "enqueue" /\ api.path = "url"
  /\ \/ /\ \E n \in 1..MaxAttempts : items' = addJob(items, n)
        /\ api' = [api EXCEPT !.pc = "returned"]
     \/ /\ items' = items
        /\ api' = [api EXCEPT !.pc = "threwEnqueue"]
  /\ UNCHANGED <<job, blob, confirm, calls, inbox, rtVars, waiter, published, confirmBy, otherVars>>

\* createForPresignedUpload: the insert, then the fileKey update; the upload
\* URL is returned and nothing is enqueued.
PresignInsert ==
  /\ api.pc = "none"
  /\ \E b \in Submissions : job' = InsertedRow(b.type, FALSE, b.schema)
  /\ api' = [pc |-> "setKey", path |-> "presign"]
  /\ UNCHANGED <<blob, confirm, items, calls, inbox, rtVars, waiter, published, confirmBy, otherVars>>

PresignSetFileKey ==
  /\ api.pc = "setKey" /\ api.path = "presign"
  /\ job' = [job EXCEPT !.fileKey = TRUE]
  /\ api' = [api EXCEPT !.pc = "returned"]
  /\ UNCHANGED <<blob, confirm, items, calls, inbox, rtVars, waiter, published, confirmBy, otherVars>>

\* The client PUTs the bytes to the presigned URL.
ClientUpload ==
  /\ api.path = "presign" /\ api.pc = "returned" /\ ~blob
  /\ blob' = TRUE
  /\ UNCHANGED <<job, api, confirm, items, calls, inbox, rtVars, waiter, published, confirmBy, otherVars>>

\* getById: the row with this id of this organization, or null (no row).
getById(row, organizationId) ==
  IF row.exists /\ row.organizationId = organizationId THEN row ELSE NoJob

confirmUploadChecks_NoStatusTest(row, exists) ==
  IF ~row.exists THEN "NotFound: Job not found"
  ELSE IF ~row.fileKey THEN "BadRequest: Job has no file key"
  ELSE IF ~exists THEN "BadRequest: File has not been uploaded to storage yet"
  ELSE "checked"

\* confirmUpload up to the storage check: getById, the status and fileKey
\* tests, StorageService.fileExists.
confirmUploadChecks(row, exists) ==
  IF ~row.exists THEN "NotFound: Job not found"
  ELSE IF row.status # "pending" THEN "BadRequest: Job has already been submitted"
  ELSE IF ~row.fileKey THEN "BadRequest: Job has no file key"
  ELSE IF ~exists THEN "BadRequest: File has not been uploaded to storage yet"
  ELSE "checked"

ConfirmCheck(k) ==
  /\ api.path = "presign" /\ api.pc = "returned"
  /\ confirm[k] = "idle"
  /\ \A m \in 1..(k - 1) : confirm[m] # "idle"
  /\ \E organizationId \in Organizations :
       /\ confirm' = [confirm EXCEPT ![k] =
                        confirmUploadChecks(getById(job, organizationId), blob)]
       /\ confirmBy' = [confirmBy EXCEPT ![k] = organizationId]
  /\ UNCHANGED <<job, api, blob, items, calls, inbox, rtVars, waiter, published, otherVars>>

\* confirmUpload: addJob, then the job is returned.
ConfirmEnqueue(k) ==
  /\ confirm[k] = "checked"
  /\ \/ /\ \E n \in 1..MaxAttempts : items' = addJob(items, n)
        /\ confirm' = [confirm EXCEPT ![k] = "returned"]
     \/ /\ items' = items
        /\ confirm' = [confirm EXCEPT ![k] = "threwEnqueue"]
  /\ UNCHANGED <<job, api, blob, calls, inbox, rtVars, waiter, published, confirmBy, otherVars>>

\* deleteJob, by a caller who was given the job's id.  The row is gone; what an
\* attempt already read of it (type, fileKey, sourceUrl) stays readable here.
DeleteJob ==
  /\ job.exists
  /\ api.pc \in {"returned", "threwUpload", "threwEnqueue"}
  /\ job' = [NoJob EXCEPT !.type = job.type, !.fileKey = job.fileKey,
                          !.sourceUrl = job.sourceUrl]
  /\ UNCHANGED <<api, blob, confirm, items, calls, inbox, rtVars, waiter, published, confirmBy, otherVars>>


\* --------------------------------------------------- workers/job.worker.ts
\* The event a row update is followed by, sent only when a row was written.
PublishIfWritten(box, row, message) ==
  IF row.exists THEN publishJobUpdate(box, message) ELSE box

\* A worker takes a waiting item; processJob starts.
Dequeue(i) ==
  /\ items[i].state = "wait"
  /\ items' = [items EXCEPT ![i] = [@ EXCEPT !.state = "active", !.pc = "load"]]
  /\ UNCHANGED <<job, api, blob, confirm, calls, inbox, rtVars, waiter, published, confirmBy, otherVars>>

\* The catch block, BullMQ's bookkeeping and the synchronous part of the
\* "failed" handler, for the error an attempt step raised.  A call records,
\* beside the arguments of failJob, the item, the job.attemptsMade the handler
\* read and the error processJob caught (what workerLogger.error logged).
AttemptFails(i, error) ==
  LET thrown == CatchRethrow(error)
      moved  == moveToFailed(items[i], thrown, error)
  IN  /\ items' = [items EXCEPT ![i] = moved]
      /\ calls' = calls \cup
           { [item |-> i, attempts |-> moved.attemptsMade, caught |-> error] @@
             FailedHandlerCall(thrown, moved.attemptsMade,
                               IF items[i].optsGiven THEN items[i].attempts
                               ELSE 3) }

\* getJobById, and the throw when the row is gone.
LoadJob(i) ==
  /\ items[i].state = "active" /\ items[i].pc = "load"
  /\ IF job.exists
       THEN /\ items' = [items EXCEPT ![i] = [@ EXCEPT !.pc = "start"]]
            /\ calls' = calls
       ELSE AttemptFails(i, ErrJobNotFound)
  /\ UNCHANGED <<job, api, blob, confirm, inbox, rtVars, waiter, published, confirmBy, otherVars>>

\* updateJobStatus(jobId, "processing", { startedAt }).
StartProcessing(i) ==
  /\ items[i].state = "active" /\ items[i].pc = "start"
  /\ job' = updateJobStatus(job, "processing", FALSE)
  /\ inbox' = PublishIfWritten(inbox, job, StatusMsg("processing"))
  /\ items' = [items EXCEPT ![i] = [@ EXCEPT !.pc = "source"]]
  /\ UNCHANGED <<api, blob, confirm, calls, rtVars, waiter, published, confirmBy, otherVars>>

\* The input bytes: fetch(sourceUrl), StorageService.getFile(fileKey), or the
\* throw when the row holds neither.  fileKey and sourceUrl are those of the
\* row read by LoadJob; no later write changes them.
ObtainSource(i) ==
  /\ items[i].state = "active" /\ items[i].pc = "source"
  /\ IF ~job.fileKey /\ job.sourceUrl
       THEN \/ /\ items' = [items EXCEPT ![i] = [@ EXCEPT !.pc = "ocr"]]
               /\ calls' = calls
            \/ \E st \in StatusTexts : AttemptFails(i, ErrFetch(st))
       ELSE IF job.fileKey
       THEN \/ /\ items' = [items EXCEPT ![i] = [@ EXCEPT !.pc = "ocr"]]
               /\ calls' = calls
            \/ AttemptFails(i, ErrStorage)
       ELSE AttemptFails(i, ErrNoSource)
  /\ UNCHANGED <<job, api, blob, confirm, inbox, rtVars, waiter, published, confirmBy, otherVars>>

\* parseDocument resolves or rejects.
RunOcr(i) ==
  /\ items[i].state = "active" /\ items[i].pc = "ocr"
  /\ \/ /\ items' = [items EXCEPT ![i] = [@ EXCEPT !.pc = "save"]]
        /\ calls' = calls
     \/ AttemptFails(i, ErrOcr)
  /\ UNCHANGED <<job, api, blob, confirm, inbox, rtVars, waiter, published, confirmBy, otherVars>>

\* updateJobStatus(jobId, "processing", { markdownResult, pageCount }).
SaveMarkdown(i) ==
  /\ items[i].state = "active" /\ items[i].pc = "save"
  /\ job' = updateJobStatus(job, "processing", TRUE)
  /\ items' = [items EXCEPT ![i] =
                 [@ EXCEPT !.pc = IF job.type = "extract" THEN "extracting"
                                  ELSE "complete"]]
  /\ UNCHANGED <<api, blob, confirm, calls, inbox, rtVars, waiter, published, confirmBy, otherVars>>

\* runExtraction: updateJobStatus(jobId, "extracting").
StartExtracting(i) ==
  /\ items[i].state = "active" /\ items[i].pc = "extracting"
  /\ job' = updateJobStatus(job, "extracting", FALSE)
  /\ inbox' = PublishIfWritten(inbox, job, StatusMsg("extracting"))
  /\ items' = [items EXCEPT ![i] = [@ EXCEPT !.pc = "llm"]]
  /\ UNCHANGED <<api, blob, confirm, calls, rtVars, waiter, published, confirmBy, otherVars>>

\* runExtraction: llmService.processExtraction resolves or rejects.
RunLlm(i) ==
  /\ items[i].state = "active" /\ items[i].pc = "llm"
  /\ \/ /\ items' = [items EXCEPT ![i] = [@ EXCEPT !.pc = "complete"]]
        /\ calls' = calls
     \/ \E e \in {ErrLlmParse, ErrNoKey, ErrLlmApi} : AttemptFails(i, e)
  /\ UNCHANGED <<job, api, blob, confirm, inbox, rtVars, waiter, published, confirmBy, otherVars>>

\* completeJob (from runExtraction or finishParseJob).
Complete(i) ==
  /\ items[i].state = "active" /\ items[i].pc = "complete"
  /\ job' = completeJob(job, job.type = "extract")
  /\ inbox' = PublishIfWritten(inbox, job, CompletedMsg)
  /\ items' = [items EXCEPT ![i] = [@ EXCEPT !.pc = "return"]]
  /\ conn' = [c \in Conns |->
       IF /\ job.exists /\ job.status # "completed" /\ upstream # "active"
          /\ conn[c].pc \in {"found", "awaiting", "subscribed", "fetched", "streaming"}
         THEN [conn[c] EXCEPT !.inWindow = TRUE]
         ELSE conn[c]]
  /\ published' = IF job.exists THEN [published EXCEPT !.completed = @ + 1]
                  ELSE published
  /\ UNCHANGED <<api, blob, confirm, calls, busVars, waiter, confirmBy, otherVars>>

\* processJob returns and BullMQ moves the item to completed.
Acknowledge(i) ==
  /\ items[i].state = "active" /\ items[i].pc = "return"
  /\ items' = [items EXCEPT ![i] = [@ EXCEPT !.state = "completed", !.pc = "-"]]
  /\ UNCHANGED <<job, api, blob, confirm, calls, inbox, rtVars, waiter, published, confirmBy, otherVars>>

\* At-least-once delivery: the worker process dies after processJob wrote the
\* result and before the item is acknowledged, and the queue's stalled check
\* puts the item back to wait.  The attempt is not counted.
Redeliver(i) ==
  /\ items[i].state = "active" /\ items[i].pc = "return"
  /\ items[i].stalled < MaxStalled
  /\ items' = [items EXCEPT ![i] =
                 [@ EXCEPT !.state = "wait", !.pc = "-", !.stalled = @ + 1]]
  /\ UNCHANGED <<job, api, blob, confirm, calls, inbox, rtVars, waiter, published, confirmBy, otherVars>>

\* worker.on("failed"): the awaited failJob writes the row.
FailedHandler(i) ==
  \E c \in calls :
    /\ c.item = i
    /\ calls' = calls \ {c}
    /\ job' = failJob(job, c.errorCode, c.errorMessage, c.shouldRetry)
    /\ inbox' = IF c.shouldRetry THEN inbox
                ELSE PublishIfWritten(inbox, job, JobFailedMsg)
    /\ published' = IF ~c.shouldRetry /\ job.exists
                      THEN [published EXCEPT !.failed = @ + 1] ELSE published
    /\ UNCHANGED <<api, blob, confirm, items, rtVars, waiter, confirmBy, otherVars>>

Admission ==
  \/ CreateInsert \/ CreateUpload \/ CreateSetFileKey \/ CreateEnqueue
  \/ CreateFromUrlInsert \/ CreateFromUrlEnqueue
  \/ PresignInsert \/ PresignSetFileKey \/ ClientUpload
  \/ \E k \in Calls : ConfirmCheck(k)
  \/ \E k \in Calls : ConfirmEnqueue(k)
  \/ DeleteJob

Processing ==
  \/ \E i \in Items : Dequeue(i)
  \/ \E i \in Items : LoadJob(i)
  \/ \E i \in Items : StartProcessing(i)
  \/ \E i \in Items : ObtainSource(i)
  \/ \E i \in Items : RunOcr(i)
  \/ \E i \in Items : SaveMarkdown(i)
  \/ \E i \in Items : StartExtracting(i)
  \/ \E i \in Items : RunLlm(i)
  \/ \E i \in Items : Complete(i)
  \/ \E i \in Items : Acknowledge(i)
  \/ \E i \in Items : FailedHandler(i)

Worker == Processing \/ \E i \in Items : Redeliver(i)

\* ------------------------------------------- services/realtime (index.ts)
\* The error event of the gateway itself: it carries no status.
GatewayErrorMsg == [type |-> "error", status |-> "none"]

\* subscribeToJob up to its await: the first handler of the channel issues the
\* Redis SUBSCRIBE and stores its promise; the handler is added to the set.
SubscribeToJob(c) ==
  /\ IF subscriptions = {}
       THEN upstream' = "pending" /\ ready' = "pending"
       ELSE UNCHANGED <<upstream, ready>>
  /\ subscriptions' = subscriptions \cup {c}

\* unsubscribeFromJob applied to a handler set: the set left, and whether the
\* channel was dropped (entry deleted, Redis UNSUBSCRIBE sent).
HandlersAfterUnsubscribe(handlers, c) == handlers \ {c}

ChannelDropped(handlers, gone) == handlers # {} /\ handlers \ gone = {}

\* Redis confirms the SUBSCRIBE: the subscription is in effect, the promise
\* resolves.
SubscribeConfirmed ==
  /\ upstream = "pending"
  /\ upstream' = "active"
  /\ ready' = "resolved"
  /\ UNCHANGED <<otherVars, confirmBy, waiter, published, job, api, blob, confirm, items, calls, subscriptions, inbox, conn>>

\* sub.subscribe rejects: subscribeToChannel deletes the subscriptionReady
\* entry and rethrows; the handlers stay in the set.
SubscribeRejected ==
  /\ upstream = "pending"
  /\ upstream' = "none"
  /\ ready' = "absent"
  /\ UNCHANGED <<otherVars, confirmBy, waiter, published, job, api, blob, confirm, items, calls, subscriptions, inbox, conn>>

\* ------------------------------------------- modules/realtime (the gateway)
\* controller.enqueue inside try/catch: nothing is written to a closed or
\* cancelled stream (nor, by ws.send, to a closed socket).
Enqueue(k, message) ==
  IF k.closed \/ k.gone THEN k ELSE [k EXCEPT !.sent = Append(@, message)]

IsTerminalEvent(message) == message.type \in {"completed", "error"}

\* The SSE callback: enqueue, and closeStream after completed or error.
SseCallback(k, message) ==
  IF IsTerminalEvent(message)
    THEN [Enqueue(k, message) EXCEPT !.closed = TRUE]
    ELSE Enqueue(k, message)

\* The WebSocket callback: ws.send.
WsCallback(k, message) == Enqueue(k, message)

Callback(k, message) ==
  IF k.profile = "sse" THEN SseCallback(k, message) ELSE WsCallback(k, message)

\* The handlers whose callback unsubscribes itself on this message.
SelfUnsubscribing(handlers, message) ==
  {c \in handlers : conn[c].profile = "sse" /\ IsTerminalEvent(message)}

\* History of one dispatch, for a connection before and after it: one message
\* fewer is stale, and a message that was published after the re-fetch and
\* written to the subscriber before the initial event has overtaken it.
Dispatched(before, after) ==
  [after EXCEPT
     !.stale = IF before.stale > 0 THEN before.stale - 1 ELSE 0,
     !.overtaken = \/ before.overtaken
                   \/ /\ before.pc = "fetched" /\ before.stale = 0
                      /\ Len(after.sent) > Len(before.sent)]

\* sub.on("message"): the head of the inbox is passed to every handler of the
\* channel; without handlers it is dropped.
Dispatch ==
  /\ inbox # <<>>
  /\ LET message == Head(inbox)
         gone    == SelfUnsubscribing(subscriptions, message)
     IN  /\ conn' = [c \in Conns |->
                       IF c \in subscriptions
                         THEN Dispatched(conn[c], Callback(conn[c], message))
                         ELSE Dispatched(conn[c], conn[c])]
         /\ subscriptions' = subscriptions \ gone
         /\ IF ChannelDropped(subscriptions, gone)
              THEN upstream' = "none" /\ ready' = "absent"
              ELSE UNCHANGED <<upstream, ready>>
  /\ inbox' = Tail(inbox)
  /\ UNCHANGED <<otherVars, confirmBy, waiter, published, job, api, blob, confirm, items, calls>>

\* What a request to /v1/realtime carries: the organization validateApiKey
\* resolves its key to ("none": no key, or a key that is not valid), and the
\* session of its cookie: none, or a user with an activeOrganizationId and the
\* organization of the user's first membership ("none": null, no membership).
NoCredentials ==
  [apiKey |-> "none", session |-> FALSE, active |-> "none", member |-> "none"]

Callers ==
  { [NoCredentials EXCEPT !.apiKey = o] : o \in Organizations } \cup
  { [NoCredentials EXCEPT !.session = TRUE, !.active = o, !.member = o] :
      o \in Organizations } \cup
  { [NoCredentials EXCEPT !.session = TRUE, !.member = o] :
      o \in Organizations \cup {"none"} } \cup
  { NoCredentials }

\* jobsWebSocket.open: the key first, else the session, which must have an
\* active organization.
WsAuth(cred) ==
  IF cred.apiKey # "none" THEN [ok |-> TRUE, organizationId |-> cred.apiKey, reply |-> "none"]
  ELSE IF ~cred.session \/ cred.active = "none"
    THEN [ok |-> FALSE, organizationId |-> "none", reply |-> "Unauthorized"]
  ELSE [ok |-> TRUE, organizationId |-> cred.active, reply |-> "none"]

\* jobsSse: the key first, else the session; without an active organization
\* the user's first membership is taken.
SseAuth(cred) ==
  IF cred.apiKey # "none" THEN [ok |-> TRUE, organizationId |-> cred.apiKey, reply |-> "200"]
  ELSE IF ~cred.session
    THEN [ok |-> FALSE, organizationId |-> "none", reply |-> "401"]
  ELSE LET resolvedOrgId == IF cred.active # "none" THEN cred.active ELSE cred.member
       IN  IF resolvedOrgId = "none"
             THEN [ok |-> FALSE, organizationId |-> "none", reply |-> "403"]
             ELSE [ok |-> TRUE, organizationId |-> resolvedOrgId, reply |-> "200"]

findJob_AnyOrganization(row, organizationId) == row.exists

\* findFirst where id = jobId and organizationId = organizationId: is there
\* such a row.
findJob(row, organizationId) ==
  row.exists /\ row.organizationId = organizationId

\* The handler up to the first lookup: where the connection goes, what it is
\* answered and sent.  sendErrorAndClose sends the error and closes; jobsSse
\* returns a JSON body with the status and opens no stream.
Admit(profile, cred, row) ==
  LET a == IF profile = "ws" THEN WsAuth(cred) ELSE SseAuth(cred)
      rejected == [pc |-> "rejected", reply |-> a.reply, closed |-> TRUE,
                   sent |-> IF profile = "ws" THEN <<GatewayErrorMsg>> ELSE <<>>]
  IN  IF ~a.ok THEN rejected
      ELSE IF ~findJob(row, a.organizationId)
        THEN [rejected EXCEPT
                !.reply = IF profile = "ws" THEN "Job not found" ELSE "404"]
      ELSE [pc |-> "found", reply |-> a.reply, closed |-> FALSE, sent |-> <<>>]

\* Who the caller is with respect to the job (history): not authenticated, of
\* no organization, of the job's organization, or of another one.  The
\* organization of a session is its active one; only jobsSse falls back to the
\* user's membership.
CallerKind(profile, cred, row) ==
  LET org == IF cred.apiKey # "none" THEN cred.apiKey
             ELSE IF cred.active # "none" THEN cred.active
             ELSE IF profile = "sse" THEN cred.member ELSE "none"
  IN  IF cred.apiKey = "none" /\ ~cred.session THEN "unauthenticated"
      ELSE IF org = "none" THEN "noOrganization"
      ELSE IF org = row.organizationId THEN "owner"
      ELSE "otherTenant"

\* The request arrives, the caller is authenticated and findJob runs (the
\* first lookup): no credentials or no row of the caller's organization, no
\* stream.
Connect(c, profile) ==
  /\ conn[c].pc = "idle"
  /\ \A m \in 1..(c - 1) : conn[m].pc # "idle"
  /\ \E cred \in Callers :
       LET a == Admit(profile, cred, job) IN
       conn' = [conn EXCEPT ![c] =
         [@ EXCEPT !.pc = a.pc, !.profile = profile, !.reply = a.reply,
                   !.sent = a.sent, !.closed = a.closed,
                   !.caller = CallerKind(profile, cred, job),
                   !.first = IF a.pc = "found" THEN job.status ELSE @,
                   !.lateJoin = a.pc = "found" /\ job.status \in Terminal]]
  /\ UNCHANGED <<otherVars, confirmBy, waiter, published, job, api, blob, confirm, items, calls, upstream, ready,
                 subscriptions, inbox>>

\* The stream starts: subscribeToJob(jobId, callback) runs to its await.
Subscribe(c) ==
  /\ conn[c].pc = "found"
  /\ SubscribeToJob(c)
  /\ conn' = [conn EXCEPT ![c] = [@ EXCEPT !.pc = "awaiting"]]
  /\ UNCHANGED <<otherVars, confirmBy, waiter, published, job, api, blob, confirm, items, calls, inbox>>

\* subscribeToJob returns: the promise resolved, ...
ReturnReady(c) ==
  /\ conn[c].pc = "awaiting" /\ ready = "resolved"
  /\ conn' = [conn EXCEPT ![c] = [@ EXCEPT !.pc = "subscribed"]]
  /\ UNCHANGED <<otherVars, confirmBy, waiter, published, job, api, blob, confirm, items, calls, upstream, ready,
                 subscriptions, inbox>>

\* ... or setTimeout(1000) won the race while the SUBSCRIBE was pending, ...
ReturnTimeout(c) ==
  /\ conn[c].pc = "awaiting" /\ ready = "pending"
  /\ conn' = [conn EXCEPT ![c] = [@ EXCEPT !.pc = "subscribed"]]
  /\ UNCHANGED <<otherVars, confirmBy, waiter, published, job, api, blob, confirm, items, calls, upstream, ready,
                 subscriptions, inbox>>

\* ... or the promise rejected (caught), or there was no entry to await.
ReturnNotReady(c) ==
  /\ conn[c].pc = "awaiting" /\ ready = "absent"
  /\ conn' = [conn EXCEPT ![c] = [@ EXCEPT !.pc = "subscribed"]]
  /\ UNCHANGED <<otherVars, confirmBy, waiter, published, job, api, blob, confirm, items, calls, upstream, ready,
                 subscriptions, inbox>>

\* The re-fetch after subscribing: findJob(jobId) ?? job.  The row of the
\* first lookup is not read again after this.
Refetch(c) ==
  /\ conn[c].pc = "subscribed"
  /\ conn' = [conn EXCEPT ![c] =
       [@ EXCEPT !.pc = "fetched",
                 !.snap = IF job.exists THEN job.status ELSE conn[c].first,
                 !.first = NoConn.first,
                 !.stale = Len(inbox)]]
  /\ UNCHANGED <<otherVars, confirmBy, waiter, published, job, api, blob, confirm, items, calls, upstream, ready,
                 subscriptions, inbox>>

\* The event made from the re-fetched row.
SnapshotEvent(status) ==
  IF status = "completed" THEN CompletedMsg
  ELSE IF status = "failed" THEN JobFailedMsg
  ELSE StatusMsg(status)

\* jobsSse: the initial event; after a terminal one closeStream() and return.
SseInitial(k) ==
  IF k.snap \in Terminal
    THEN [Enqueue(k, SnapshotEvent(k.snap)) EXCEPT
            !.closed = TRUE, !.pc = "streaming", !.snap = NoConn.snap]
    ELSE [Enqueue(k, SnapshotEvent(k.snap)) EXCEPT
            !.pc = "streaming", !.snap = NoConn.snap]

\* jobsWebSocket.open: the initial event, by ws.send.
WsInitial(k) ==
  [Enqueue(k, SnapshotEvent(k.snap)) EXCEPT !.pc = "streaming", !.snap = NoConn.snap]

\* History of the initial event, for a connection before and after it.
InitialSent(before, after) ==
  [after EXCEPT
     !.stale = 0,
     !.overtaken = FALSE,
     !.snapLate = /\ before.overtaken
                  /\ Len(after.sent) > Len(before.sent)
                  /\ SnapshotEvent(before.snap).type = "status"]

SendInitial(c) ==
  /\ conn[c].pc = "fetched"
  /\ LET closes == conn[c].profile = "sse" /\ conn[c].snap \in Terminal
         gone   == IF closes THEN {c} ELSE {}
     IN  /\ conn' = [conn EXCEPT ![c] =
                       InitialSent(@, IF conn[c].profile = "sse" THEN SseInitial(@)
                                      ELSE WsInitial(@))]
         /\ subscriptions' = subscriptions \ gone
         /\ IF ChannelDropped(subscriptions, gone)
              THEN upstream' = "none" /\ ready' = "absent"
              ELSE UNCHANGED <<upstream, ready>>
  /\ UNCHANGED <<otherVars, confirmBy, waiter, published, job, api, blob, confirm, items, calls, inbox>>

\* The heartbeat interval of jobsSse: set when the stream starts, cleared by
\* closeStream.  jobsWebSocket sets no timer.
HeartbeatRunning(c) ==
  /\ conn[c].profile = "sse"
  /\ conn[c].pc \in {"awaiting", "subscribed", "fetched", "streaming"}
  /\ ~conn[c].closed

\* The subscriber disconnects.  jobsWebSocket.close unsubscribes the callback
\* stored in ws.data.wsData, which open sets just before subscribeToJob; the
\* ReadableStream of jobsSse has no cancel callback.
Disconnect(c) ==
  /\ conn[c].pc \in {"found", "awaiting", "subscribed", "fetched", "streaming"}
  /\ ~conn[c].closed /\ ~conn[c].gone
  /\ conn' = [conn EXCEPT ![c] = [@ EXCEPT !.gone = TRUE]]
  /\ LET gone == IF conn[c].profile = "ws" /\ conn[c].pc # "found"
                   THEN subscriptions \ HandlersAfterUnsubscribe(subscriptions, c)
                   ELSE {}
     IN  /\ subscriptions' = subscriptions \ gone
         /\ IF ChannelDropped(subscriptions, gone)
              THEN upstream' = "none" /\ ready' = "absent"
              ELSE UNCHANGED <<upstream, ready>>
  /\ UNCHANGED <<otherVars, confirmBy, waiter, published, job, api, blob, confirm, items, calls, inbox>>

Gateway ==
  \/ SubscribeConfirmed \/ SubscribeRejected \/ Dispatch
  \/ \E c \in Conns, profile \in {"sse", "ws"} : Connect(c, profile)
  \/ \E c \in Conns : Subscribe(c)
  \/ \E c \in Conns : ReturnReady(c)
  \/ \E c \in Conns : ReturnTimeout(c)
  \/ \E c \in Conns : ReturnNotReady(c)
  \/ \E c \in Conns : Refetch(c)
  \/ \E c \in Conns : SendInitial(c)
  \/ \E c \in Conns : Disconnect(c)

\* ------------------------------------------------ the SDK waiter's steps
\* The messages a socket to /v1/realtime can deliver.
SocketMessages ==
  { StatusMsg("processing"), StatusMsg("extracting"), CompletedMsg,
    JobFailedMsg, GatewayErrorMsg, PongMsg }

\* waitForCompletedJob is called: the timeout is armed and connect() runs.
WaitStart ==
  /\ waiter.pc = "idle"
  /\ \E outcome \in CreateOutcomes :
       waiter' = connect([waiter EXCEPT !.pc = "waiting", !.timeout = TRUE], outcome)
  /\ UNCHANGED <<serverVars, otherVars>>

\* The reconnect timer fires: connect().
ReconnectFires ==
  /\ waiter.reconnectTimer # 0
  /\ \E outcome \in CreateOutcomes : waiter' = connect(waiter, outcome)
  /\ UNCHANGED <<serverVars, otherVars>>

SocketOpens ==
  /\ waiter.sock = "CONNECTING"
  /\ waiter' = [waiter EXCEPT !.sock = "OPEN"]
  /\ UNCHANGED <<serverVars, otherVars>>

\* A message event.
SocketMessage ==
  /\ waiter.sock = "OPEN"
  /\ \E message \in SocketMessages : waiter' = handleMessage(waiter, message)
  /\ UNCHANGED <<serverVars, otherVars>>

\* An error event: the listener closes the socket (if the transport has not).
SocketErrors ==
  /\ waiter.sock \in {"CONNECTING", "OPEN"}
  /\ waiter' = [waiter EXCEPT !.sock = "CLOSING"]
  /\ UNCHANGED <<serverVars, otherVars>>

\* The close event: scheduleReconnect() unless settled.
SocketCloses ==
  /\ waiter.sock \in {"CONNECTING", "OPEN", "CLOSING"}
  /\ waiter' = scheduleReconnect([waiter EXCEPT !.sock = "CLOSED"])
  /\ UNCHANGED <<serverVars, otherVars>>

\* The caller's timeout fires.
TimeoutFires ==
  /\ waiter.timeout
  /\ waiter' = finish(waiter, SdkError(408, "timeout", NoMsg))
  /\ UNCHANGED <<serverVars, otherVars>>

Waiter ==
  \/ WaitStart \/ ReconnectFires \/ SocketOpens \/ SocketMessage
  \/ SocketErrors \/ SocketCloses \/ TimeoutFires

\* ------------------------------------- modules/jobs: createJobHandler
\* body.url values, as sequences of characters: http://a, https://a, ftp://a,
\* httpx://a and the empty string.
Http == <<"h", "t", "t", "p">>
UrlTexts ==
  { Http \o <<":", "/", "/", "a">>,
    Http \o <<"s", ":", "/", "/", "a">>,
    <<"f", "t", "p", ":", "/", "/", "a">>,
    Http \o <<"x", ":", "/", "/", "a">>,
    <<>> }

\* The bodies of POST /api/parse and /api/extract: file and url are optional.
Bodies ==
  { [file |-> f, url |-> u] :
      f \in BOOLEAN,
      u \in {[given |-> FALSE, text |-> <<>>]} \cup
             {[given |-> TRUE, text |-> x] : x \in UrlTexts} }

\* String.prototype.startsWith.
StartsWith(s, prefix) ==
  Len(s) >= Len(prefix) /\ SubSeq(s, 1, Len(prefix)) = prefix

\* createJobHandler for an authenticated caller: the service call it makes,
\* or the error it throws.
createJobHandler(body) ==
  LET hasValidUrl == /\ body.url.given
                     /\ Len(body.url.text) > 0
                     /\ StartsWith(body.url.text, Http)
  IN  IF hasValidUrl THEN "JobService.createFromUrl"
      ELSE IF ~body.file THEN "BadRequestError: File or URL is required"
      ELSE "JobService.create"

\* The handler runs for the request: it throws, or calls the service, whose
\* first step is the insert.
CreateJobHandler ==
  /\ request.pc = "received"
  /\ LET call == createJobHandler(request.body) IN
       \/ call = "JobService.createFromUrl" /\ CreateFromUrlInsert
       \/ call = "JobService.create" /\ CreateInsert
       \/ /\ call \notin {"JobService.createFromUrl", "JobService.create"}
          /\ api.pc = "none"
          /\ request' = [request EXCEPT !.pc = "threw", !.error = call]
          /\ UNCHANGED <<serverVars, waiter, cache, bus, failures, llm, sdk, registry>>

\* One direct submission, from the request to the enqueued work item.
InitSubmit ==
  /\ job = NoJob
  /\ api = [pc |-> "none", path |-> "none"]
  /\ blob = FALSE
  /\ confirm = [k \in Calls |-> "idle"]
  /\ items = [k \in Items |-> NoItem]
  /\ calls = {}
  /\ upstream = "none"
  /\ ready = "absent"
  /\ subscriptions = {}
  /\ inbox = <<>>
  /\ conn = [c \in Conns |-> NoConn]
  /\ waiter = WaiterFor(MaxWsAttempts)
  /\ published = NothingPublished
  /\ confirmBy = [k \in Calls |-> "none"]
  /\ cache = NoCache
  /\ bus = NoBus
  /\ failures = NoFailures
  /\ \E body \in Bodies : request = [NoRequest EXCEPT !.pc = "received", !.body = body]
  /\ llm = NoExtraction
  /\ sdk = NoSdkCall
  /\ registry = NoRegistry

NextSubmit ==
  \/ CreateJobHandler
  \/ CreateUpload \/ CreateSetFileKey \/ CreateEnqueue \/ CreateFromUrlEnqueue

SpecSubmit == InitSubmit /\ [][NextSubmit]_vars

\* ------------------------------------------------------- services/llm.ts
\* A response text is a sequence of parts: prose, or the text of one JSON
\* value (an object with its top-level keys, an array, a number).  The
\* responses here hold no code fence.
Prose == [kind |-> "prose", keys |-> {}]

\* The top-level keys of the objects and of the schemas' required lists.
Keys == {"title", "constructor"}

JsonValues ==
  { [kind |-> "object", keys |-> ks] : ks \in SUBSET Keys } \cup
  { [kind |-> "array", keys |-> {}], [kind |-> "number", keys |-> {}] }

Texts ==
  UNION { [1..n -> {Prose} \cup JsonValues] : n \in 0..MaxParts }

\* The schema argument: undefined, or a schema whose required is no array
\* (here: no required keys) or an array of strings.
Schemas ==
  { [present |-> FALSE, required |-> {}] } \cup
  { [present |-> TRUE, required |-> r] : r \in SUBSET Keys }

\* Names every object inherits from Object.prototype: key in value is true
\* for them whatever the object holds.
ObjectPrototypeKeys == {"constructor", "toString", "valueOf", "hasOwnProperty"}

isRecord(value) == value.kind = "object"

getRequiredTopLevelKeys(schema) ==
  IF ~schema.present THEN {} ELSE schema.required

\* The validator built for the schema, applied to a parsed value.
buildExtractionValidator(schema, value) ==
  LET requiredKeys == getRequiredTopLevelKeys(schema) IN
  IF ~isRecord(value) THEN FALSE
  ELSE IF requiredKeys = {} THEN TRUE
  ELSE \A key \in requiredKeys :
         key \in value.keys \/ key \in ObjectPrototypeKeys

\* The balanced { } and [ ] segments of a text, as one-part texts.
findBalancedJsonSegments(text) ==
  { <<text[k]>> : k \in {m \in DOMAIN text : text[m].kind \in {"object", "array"}} }

\* The trimmed text and its balanced segments, each once.
collectJsonCandidates(text) ==
  IF text = <<>> THEN {} ELSE {text} \cup findBalancedJsonSegments(text)

\* JSON.parse of a candidate: it must be one JSON value and nothing else.
JsonParses(candidate) == Len(candidate) = 1 /\ candidate[1].kind # "prose"

\* parseJsonFromText: the only candidate that parses and validates, or the
\* LlmJsonParseError thrown.
parseJsonFromText(text, schema) ==
  LET validMatches ==
        { c \in collectJsonCandidates(text) :
            JsonParses(c) /\ buildExtractionValidator(schema, c[1]) }
      parsedButInvalidShape ==
        { c \in collectJsonCandidates(text) :
            JsonParses(c) /\ ~buildExtractionValidator(schema, c[1]) }
  IN  IF Cardinality(validMatches) = 1
        THEN [ok |-> TRUE, data |-> (CHOOSE c \in validMatches : TRUE)[1],
              error |-> "none"]
      ELSE IF Cardinality(validMatches) > 1
        THEN [ok |-> FALSE, data |-> NoExtraction.data,
              error |-> "LlmJsonParseError: Ambiguous JSON response"]
      ELSE IF parsedButInvalidShape # {}
        THEN [ok |-> FALSE, data |-> NoExtraction.data,
              error |-> "LlmJsonParseError: Parsed JSON does not match expected shape"]
      ELSE [ok |-> FALSE, data |-> NoExtraction.data,
            error |-> "LlmJsonParseError: JSON Parse error"]

\* processExtraction is called: without the API key it throws at once.
ProcessExtraction ==
  /\ llm.pc = "called"
  /\ llm' = IF ~llm.hasKey
              THEN [llm EXCEPT !.pc = "threw",
                               !.error = "Error: OPENROUTER_API_KEY is not configured"]
              ELSE [llm EXCEPT !.pc = "generateText"]
  /\ UNCHANGED <<serverVars, waiter, cache, bus, failures, request, sdk, registry>>

\* The extraction call of generateText rejects or resolves; on a response
\* parseJsonWithRepair makes its first parse.
GenerateText ==
  /\ llm.pc = "generateText"
  /\ \/ llm' = [llm EXCEPT !.pc = "threw", !.calls = @ + 1,
                            !.error = "APICallError"]
     \/ \E text \in Texts :
          LET parsed == parseJsonFromText(text, llm.schema) IN
          llm' = IF parsed.ok
                   THEN [llm EXCEPT !.pc = "returned", !.calls = @ + 1,
                                    !.first = text, !.data = parsed.data]
                   ELSE [llm EXCEPT !.pc = "repair", !.calls = @ + 1,
                                    !.first = text]
  /\ UNCHANGED <<serverVars, waiter, cache, bus, failures, request, sdk, registry>>

\* The catch of parseJsonWithRepair: the repair call of generateText, the
\* parse of its response, and the LlmJsonParseError if that fails too.
RepairText ==
  /\ llm.pc = "repair"
  /\ \/ llm' = [llm EXCEPT !.pc = "threw", !.calls = @ + 1,
                            !.error = "APICallError"]
     \/ \E text \in Texts :
          LET parsed == parseJsonFromText(text, llm.schema) IN
          llm' = IF parsed.ok
                   THEN [llm EXCEPT !.pc = "returned", !.calls = @ + 1,
                                    !.repair = text, !.repaired = TRUE,
                                    !.data = parsed.data]
                   ELSE [llm EXCEPT !.pc = "threw", !.calls = @ + 1,
                                    !.repair = text, !.repaired = TRUE,
                                    !.error = "LlmJsonParseError: JSON Parse error"]
  /\ UNCHANGED <<serverVars, waiter, cache, bus, failures, request, sdk, registry>>

\* One processExtraction call, for each schema and with or without the key.
InitLlm ==
  /\ job = NoJob
  /\ api = [pc |-> "none", path |-> "none"]
  /\ blob = FALSE
  /\ confirm = [k \in Calls |-> "idle"]
  /\ items = [k \in Items |-> NoItem]
  /\ calls = {}
  /\ upstream = "none"
  /\ ready = "absent"
  /\ subscriptions = {}
  /\ inbox = <<>>
  /\ conn = [c \in Conns |-> NoConn]
  /\ waiter = WaiterFor(MaxWsAttempts)
  /\ published = NothingPublished
  /\ confirmBy = [k \in Calls |-> "none"]
  /\ cache = NoCache
  /\ bus = NoBus
  /\ failures = NoFailures
  /\ request = NoRequest
  /\ \E hasKey \in BOOLEAN, schema \in Schemas :
       llm = [NoExtraction EXCEPT !.pc = "called", !.hasKey = hasKey,
                                  !.schema = schema]
  /\ sdk = NoSdkCall
  /\ registry = NoRegistry

NextLlm == ProcessExtraction \/ GenerateText \/ RepairText

SpecLlm == InitLlm /\ [][NextLlm]_vars

\* ----------------------------------------- packages/sdk: parse and extract
\* The apiKey option and process.env.OCRBASE_API_KEY: absent, empty, or a key.
ApiKeyOptions == {"undefined", "", "sk_key"}
EnvValues == {"unset", "", "sk_env"}

\* The document argument: a local path, an http(s) URL string, or a Blob.
DocumentInputs == {"path", "httpUrl", "blob"}

getApiKeyFromEnv(env) == IF env \in {"unset", ""} THEN "undefined" ELSE env

resolveConfig_NoKeyTest(apiKeyOption, env) ==
  [ok |-> TRUE,
   apiKey |-> IF apiKeyOption # "undefined" THEN apiKeyOption
              ELSE getApiKeyFromEnv(env)]

\* resolveConfig: config.apiKey ?? getApiKeyFromEnv(), and the throw on a
\* falsy key.
resolveConfig(apiKeyOption, env) ==
  LET apiKey == IF apiKeyOption # "undefined" THEN apiKeyOption
                ELSE getApiKeyFromEnv(env)
  IN  IF apiKey \in {"undefined", ""}
        THEN [ok |-> FALSE, apiKey |-> apiKey]
        ELSE [ok |-> TRUE, apiKey |-> apiKey]

\* parse / extract (generateText / generateObject): createOcrBase runs
\* resolveConfig first; its throw rejects the call.
SdkCall ==
  /\ sdk.pc = "called"
  /\ sdk' = IF resolveConfig(sdk.apiKey, sdk.env).ok
              THEN [sdk EXCEPT !.pc = "normalize"]
              ELSE [sdk EXCEPT !.pc = "rejected", !.error = "Missing API key"]
  /\ UNCHANGED <<serverVars, waiter, cache, bus, failures, request, llm, registry>>

\* normalizeDocumentRequest: a local path is read (or is not found), an
\* http(s) URL and a Blob are taken as they are.
NormalizeDocumentRequest ==
  /\ sdk.pc = "normalize"
  /\ LET next == IF sdk.fn = "extract" THEN "schema" ELSE "submit" IN
     IF sdk.file = "path"
       THEN \/ sdk' = [sdk EXCEPT !.pc = next, !.fileReads = @ + 1]
            \/ sdk' = [sdk EXCEPT !.pc = "returned", !.fileReads = @ + 1,
                                  !.error = "File not found at path"]
       ELSE sdk' = [sdk EXCEPT !.pc = next]
  /\ UNCHANGED <<serverVars, waiter, cache, bus, failures, request, llm, registry>>

\* The finally block of extract: the schema is deleted when keepSchema is not
\* true and extract's schemaId has been set.
afterTry(s) ==
  IF s.fn = "extract" /\ ~s.keepSchema /\ s.schemaId
    THEN "cleanup" ELSE "returned"

\* extract: client.v1.schemas.post for the temporary schema.
CreateTemporarySchema ==
  /\ sdk.pc = "schema"
  /\ \/ sdk' = [sdk EXCEPT !.pc = "submit", !.requests = @ + 1,
                           !.schema = "created"]
     \/ sdk' = [sdk EXCEPT !.pc = "returned", !.requests = @ + 1,
                           !.error = "schema request failed"]
  /\ UNCHANGED <<serverVars, waiter, cache, bus, failures, request, llm, registry>>

\* client.v1.parse.post / client.v1.extract.post.  For extract the call is
\* made inside createTemporarySchemaAndSubmitExtract, which hands the schema
\* id back only with the job id; on an error it returns the error alone and
\* extract returns through its finally block with schemaId still null.
SubmitDocument ==
  /\ sdk.pc = "submit"
  /\ \/ sdk' = [sdk EXCEPT !.pc = "wait", !.requests = @ + 1,
                           !.schemaId = sdk.fn = "extract"]
     \/ sdk' = [sdk EXCEPT !.pc = afterTry(sdk),
                           !.requests = @ + 1, !.error = "submit request failed"]
  /\ UNCHANGED <<serverVars, waiter, cache, bus, failures, request, llm, registry>>

\* waitForCompletedJob: the realtime connection, and how the wait ends.
AwaitCompletedJob ==
  /\ sdk.pc = "wait"
  /\ \/ sdk' = [sdk EXCEPT !.pc = "snapshot", !.sockets = @ + 1]
     \/ sdk' = [sdk EXCEPT !.pc = afterTry(sdk),
                           !.sockets = @ + 1, !.error = "wait failed"]
  /\ UNCHANGED <<serverVars, waiter, cache, bus, failures, request, llm, registry>>

\* getJobSnapshot: client.v1.jobs({ id }).get(); its failure is swallowed.
GetJobSnapshot ==
  /\ sdk.pc = "snapshot"
  /\ sdk' = [sdk EXCEPT !.pc = afterTry(sdk), !.requests = @ + 1]
  /\ UNCHANGED <<serverVars, waiter, cache, bus, failures, request, llm, registry>>

\* extract, finally: cleanupTemporarySchema sends the DELETE and ignores its
\* failure.
CleanupTemporarySchema ==
  /\ sdk.pc = "cleanup"
  /\ \E deleted \in BOOLEAN :
       sdk' = [sdk EXCEPT !.pc = "returned", !.requests = @ + 1,
                          !.deleteCalls = @ + 1,
                          !.schema = IF deleted THEN "deleted" ELSE @]
  /\ UNCHANGED <<serverVars, waiter, cache, bus, failures, request, llm, registry>>

\* One parse or extract call, for every apiKey option, environment and
\* document argument.
InitSdk ==
  /\ job = NoJob
  /\ api = [pc |-> "none", path |-> "none"]
  /\ blob = FALSE
  /\ confirm = [k \in Calls |-> "idle"]
  /\ items = [k \in Items |-> NoItem]
  /\ calls = {}
  /\ upstream = "none"
  /\ ready = "absent"
  /\ subscriptions = {}
  /\ inbox = <<>>
  /\ conn = [c \in Conns |-> NoConn]
  /\ waiter = WaiterFor(MaxWsAttempts)
  /\ published = NothingPublished
  /\ confirmBy = [k \in Calls |-> "none"]
  /\ cache = NoCache
  /\ bus = NoBus
  /\ failures = NoFailures
  /\ request = NoRequest
  /\ llm = NoExtraction
  /\ \E fn \in {"parse", "extract"}, apiKey \in ApiKeyOptions, env \in EnvValues,
        file \in DocumentInputs, keepSchema \in BOOLEAN :
       /\ keepSchema => fn = "extract"
       /\ sdk = [NoSdkCall EXCEPT !.pc = "called", !.fn = fn, !.apiKey = apiKey,
                                  !.env = env, !.file = file,
                                  !.keepSchema = keepSchema]
  /\ registry = NoRegistry

NextSdk ==
  \/ SdkCall \/ NormalizeDocumentRequest \/ CreateTemporarySchema
  \/ SubmitDocument \/ AwaitCompletedJob \/ GetJobSnapshot
  \/ CleanupTemporarySchema

SpecSdk == InitSdk /\ [][NextSdk]_vars

\* ------------------------------------- the web client's shared connections
\* One module keeps EventSource connections, its twin keeps WebSocket
\* connections; registry.transport says which one the build uses.  socket is
\* the closure variable es / ws: "null", or the readyState of the socket it
\* refers to.

\* scheduleReconnect of the web client (EventSource), and the same lines of the WebSocket
\* close handler.
webScheduleReconnect(c) ==
  IF c.destroyed THEN c
  ELSE IF c.retries < MAX_RETRIES
    THEN [c EXCEPT !.retries = @ + 1, !.retryTimeout = TRUE]
    ELSE [c EXCEPT !.error = "Realtime connection closed"]

\* connect of the web client: nothing once destroyed; else a new socket, or, when making it
\* throws, the catch block.
webConnect(c, throws) ==
  IF c.destroyed THEN c
  ELSE IF ~throws THEN [c EXCEPT !.socket = "CONNECTING"]
  ELSE IF c.retries < MAX_RETRIES
    THEN [c EXCEPT !.retries = @ + 1, !.retryTimeout = TRUE]
    ELSE [c EXCEPT !.error = "Realtime connection failed"]

\* teardown, for the closure variables; a WebSocket that was open or
\* connecting still delivers its close event afterwards.
teardown(c, transport) ==
  [c EXCEPT !.destroyed = TRUE, !.retryTimeout = FALSE, !.socket = "null",
            !.pendingClose = \/ @
                             \/ /\ transport = "webSocket"
                                /\ c.socket \in {"CONNECTING", "OPEN"}]

\* getJobConnection: the registered connection, or a new one that is
\* registered and connected.
GetJobConnection(objects) ==
  /\ IF registry.connections # 0
       THEN UNCHANGED registry
       ELSE /\ \E o \in objects : ~registry.connection[o].created
            /\ LET o == CHOOSE n \in objects :
                          /\ ~registry.connection[n].created
                          /\ \A m \in 1..(n - 1) : registry.connection[m].created
               IN \E throws \in BOOLEAN :
                    registry' =
                      [registry EXCEPT
                         !.connections = o,
                         !.connection[o] =
                            webConnect([NoConnection EXCEPT !.created = TRUE],
                                    throws)]
  /\ UNCHANGED <<serverVars, waiter, cache, bus, failures, request, llm, sdk>>

\* connection.retain(), on any connection object a caller was handed.
Retain(o) ==
  /\ registry.connection[o].created
  /\ \E h \in Releases : ~registry.release[h].made
  /\ LET h == CHOOSE n \in Releases :
                /\ ~registry.release[n].made
                /\ \A m \in 1..(n - 1) : registry.release[m].made
     IN registry' =
          [registry EXCEPT
             !.connection[o].refCount = @ + 1,
             !.release[h] = [made |-> TRUE, connection |-> o,
                             released |-> FALSE, calls |-> 0]]
  /\ UNCHANGED <<serverVars, waiter, cache, bus, failures, request, llm, sdk>>

\* A call of the function retain() returned.
Release(h) ==
  /\ registry.release[h].made
  /\ registry.release[h].calls < MaxCalls
  /\ LET o == registry.release[h].connection
         c == registry.connection[o]
     IN IF registry.release[h].released
          THEN registry' = [registry EXCEPT !.release[h].calls = @ + 1]
          ELSE IF c.refCount - 1 <= 0
            THEN registry' =
                   [registry EXCEPT
                      !.release[h].calls = @ + 1,
                      !.release[h].released = TRUE,
                      !.connection[o] =
                         teardown([c EXCEPT !.refCount = @ - 1],
                                  registry.transport),
                      !.connections = 0]
            ELSE registry' =
                   [registry EXCEPT
                      !.release[h].calls = @ + 1,
                      !.release[h].released = TRUE,
                      !.connection[o].refCount = @ - 1]
  /\ UNCHANGED <<serverVars, waiter, cache, bus, failures, request, llm, sdk>>

\* The socket's open event.
SocketOpen(o) ==
  /\ registry.connection[o].socket = "CONNECTING"
  /\ registry' =
       IF registry.connection[o].destroyed
         THEN [registry EXCEPT !.connection[o].socket = "CLOSED"]
         ELSE [registry EXCEPT !.connection[o].socket = "OPEN",
                               !.connection[o].retries = 0]
  /\ UNCHANGED <<serverVars, waiter, cache, bus, failures, request, llm, sdk>>

\* What the message listeners keep in terminal.message: a completed message,
\* or an error message with status failed.
keepsTerminal_AnyError(msg) ==
  msg.type \in {"completed", "error"}
keepsTerminal(msg) ==
  \/ msg.type = "completed"
  \/ msg.type = "error" /\ msg.status = "failed"

\* A job event arrives: it is handed to the listeners, and a terminal one is
\* kept for replay.  The EventSource listeners for status and completed
\* reset retries.
JobMessage(o, messages) ==
  /\ registry.connection[o].socket = "OPEN"
  /\ \E msg \in messages :
       registry' =
         [registry EXCEPT
            !.connection[o].retries =
               IF registry.transport = "eventSource" /\ msg.type # "error"
                 THEN 0 ELSE @,
            !.connection[o].terminal = IF keepsTerminal(msg) THEN msg ELSE @,
            !.connection[o].heard =
               IF msg.status \in {"completed", "failed"} THEN msg ELSE @,
            !.connection[o].plain = @ \/ msg.status = "undefined"]
  /\ UNCHANGED <<serverVars, waiter, cache, bus, failures, request, llm, sdk>>

\* connection.addListener, on any connection object a caller was handed: the
\* listener is called with terminal.message if there is one.
AddListener(l, o) ==
  /\ registry.listener[l].on = 0
  /\ registry.connection[o].created
  /\ registry' =
       [registry EXCEPT
          !.listener[l] = [on |-> o,
                           replay |-> registry.connection[o].terminal,
                           heard |-> registry.connection[o].heard,
                           plain |-> registry.connection[o].plain]]
  /\ UNCHANGED <<serverVars, waiter, cache, bus, failures, request, llm, sdk>>

\* EventSource error event for a connection problem: the browser retries by
\* itself (CONNECTING) or has given up (CLOSED).
ConnectionError(o) ==
  /\ registry.transport = "eventSource"
  /\ registry.connection[o].socket \in {"CONNECTING", "OPEN"}
  /\ \E readyState \in {"CONNECTING", "CLOSED"} :
       registry' =
         IF readyState = "CLOSED"
           THEN [registry EXCEPT
                   !.connection[o] = webScheduleReconnect([@ EXCEPT !.socket = "null"])]
           ELSE [registry EXCEPT !.connection[o].socket = "CONNECTING"]
  /\ UNCHANGED <<serverVars, waiter, cache, bus, failures, request, llm, sdk>>

\* WebSocket close event, of the socket ws refers to or of one that teardown
\* closed.
SocketClose(o) ==
  /\ registry.transport = "webSocket"
  /\ \/ /\ registry.connection[o].socket \in {"CONNECTING", "OPEN"}
        /\ registry' =
             [registry EXCEPT
                !.connection[o] = webScheduleReconnect([@ EXCEPT !.socket = "CLOSED"])]
     \/ /\ registry.connection[o].pendingClose
        /\ registry' =
             [registry EXCEPT
                !.connection[o] =
                   webScheduleReconnect([@ EXCEPT !.pendingClose = FALSE])]
  /\ UNCHANGED <<serverVars, waiter, cache, bus, failures, request, llm, sdk>>

\* The reconnect timer fires: connect.
RetryTimeout(o) ==
  /\ registry.connection[o].retryTimeout
  /\ \E throws \in BOOLEAN :
       registry' =
         [registry EXCEPT
            !.connection[o] = webConnect([@ EXCEPT !.retryTimeout = FALSE], throws)]
  /\ UNCHANGED <<serverVars, waiter, cache, bus, failures, request, llm, sdk>>

InitWeb ==
  /\ job = NoJob
  /\ api = [pc |-> "none", path |-> "none"]
  /\ blob = FALSE
  /\ confirm = [k \in Calls |-> "idle"]
  /\ items = [k \in Items |-> NoItem]
  /\ calls = {}
  /\ upstream = "none"
  /\ ready = "absent"
  /\ subscriptions = {}
  /\ inbox = <<>>
  /\ conn = [c \in Conns |-> NoConn]
  /\ waiter = WaiterFor(MaxWsAttempts)
  /\ published = NothingPublished
  /\ confirmBy = [k \in Calls |-> "none"]
  /\ cache = NoCache
  /\ bus = NoBus
  /\ failures = NoFailures
  /\ request = NoRequest
  /\ llm = NoExtraction
  /\ sdk = NoSdkCall
  /\ \E transport \in Transports :
       registry = [NoRegistry EXCEPT !.transport = transport]

\* The registry under any calls, for a job whose events are status and
\* completed.
NextWeb ==
  \/ GetJobConnection(JobConnections)
  \/ \E o \in JobConnections : Retain(o)
  \/ \E h \in Releases : Release(h)
  \/ \E o \in JobConnections : SocketOpen(o)
  \/ \E o \in JobConnections :
       JobMessage(o, {m \in WebMessages : m.type # "error"})
  \/ \E o \in JobConnections : ConnectionError(o)
  \/ \E o \in JobConnections : SocketClose(o)
  \/ \E o \in JobConnections : RetryTimeout(o)

SpecWeb == InitWeb /\ [][NextWeb]_vars

\* Listeners on up to MaxReplayObjects connections, for every job message.
NextWebListeners ==
  \/ GetJobConnection(1..MaxReplayObjects)
  \/ \E o \in JobConnections : Retain(o)
  \/ \E h \in Releases : Release(h)
  \/ \E o \in JobConnections : SocketOpen(o)
  \/ \E o \in JobConnections : JobMessage(o, WebMessages)
  \/ \E l \in Listeners, o \in JobConnections : AddListener(l, o)
  \/ \E o \in JobConnections : ConnectionError(o)
  \/ \E o \in JobConnections : SocketClose(o)
  \/ \E o \in JobConnections : RetryTimeout(o)

SpecWebListeners == InitWeb /\ [][NextWebListeners]_vars

\* --------------------------------------------- the web client's query cache
JobStatuses == {"pending", "processing", "extracting", "completed", "failed"}
\* The realtime messages a listener can be called with.
ListenerMessages ==
  [type : {"status"}, status : JobStatuses]
    \cup {m \in WebMessages : m.type # "status"}

isTerminalStatus(status) == status \in {"completed", "failed"}
isJobProcessing(status) ==
  status \in {"none", "pending", "processing", "extracting"}
resolveMonotonicStatus(currentStatus, nextStatus) ==
  IF isTerminalStatus(currentStatus) THEN currentStatus ELSE nextStatus

\* applyTerminalStatuses, which the cache subscription of
\* useProcessingJobsRealtime runs after every update of the ["jobs"] data.
applyTerminalStatuses(c) ==
  IF c.mounted /\ c.terminalStatuses # "none"
       /\ c.list \notin {"none", c.terminalStatuses}
    THEN [c EXCEPT !.list = c.terminalStatuses]
    ELSE c

\* updateJobsListStatus of useJobRealtime.
updateJobsListStatus(c, status) ==
  applyTerminalStatuses(
    [c EXCEPT !.list = IF @ = "none" THEN @
                       ELSE resolveMonotonicStatus(@, status)])

\* setJobStatus of useProcessingJobsRealtime.
setJobStatus(c, nextStatus) ==
  LET resolvedStatus ==
        IF isTerminalStatus(nextStatus) THEN nextStatus
        ELSE IF c.terminalStatuses # "none" THEN c.terminalStatuses
        ELSE nextStatus
  IN applyTerminalStatuses(
       [c EXCEPT !.terminalStatuses =
                    IF isTerminalStatus(nextStatus) THEN nextStatus ELSE @,
                 !.recorded =
                    IF isTerminalStatus(nextStatus) THEN nextStatus ELSE @,
                 !.list = IF @ = "none" THEN @ ELSE resolvedStatus])

\* The listener of useJobRealtime.
DetailListener(c, msg) ==
  LET terminal(status) ==
        updateJobsListStatus(
          [c EXCEPT !.job = IF @ = "none" THEN @ ELSE status,
                    !.invalidated = TRUE, !.detail = "done",
                    !.recorded = status],
          status)
  IN
  IF c.detail # "listening" THEN c
  ELSE IF msg.type = "completed" THEN terminal("completed")
  ELSE IF msg.type = "error"
    THEN IF msg.status = "failed" THEN terminal("failed") ELSE c
  ELSE LET resolvedStatus ==
             IF c.job = "none" THEN msg.status
             ELSE resolveMonotonicStatus(c.job, msg.status)
           updated ==
             updateJobsListStatus(
               [c EXCEPT !.job = IF @ = "none" THEN @ ELSE resolvedStatus],
               resolvedStatus)
       IN IF isTerminalStatus(msg.status)
            THEN [updated EXCEPT !.invalidated = TRUE, !.detail = "done",
                                 !.recorded = msg.status]
            ELSE updated

\* The listener of useProcessingJobsRealtime for the job.
SidebarListener(c, msg) ==
  IF ~c.sidebar THEN c
  ELSE IF msg.type = "error" /\ msg.status # "failed" THEN c
  ELSE setJobStatus(c, IF msg.type = "status" THEN msg.status
                       ELSE IF msg.type = "completed" THEN "completed"
                       ELSE "failed")

\* useJobRealtime's effect: no connection for a job known to be finished.
DetailMount ==
  /\ cache.detail = "idle"
  /\ isJobProcessing(cache.job)
  /\ cache' = [cache EXCEPT !.detail = "listening"]
  /\ UNCHANGED <<serverVars, waiter, bus, failures, request, llm, sdk, registry>>

\* The cleanup of useJobRealtime's effect.
DetailUnmount ==
  /\ cache.detail # "idle"
  /\ cache' = [cache EXCEPT !.detail = "idle"]
  /\ UNCHANGED <<serverVars, waiter, bus, failures, request, llm, sdk, registry>>

\* useProcessingJobsRealtime is mounted, or unmounted: every connection is
\* released and terminalStatuses cleared.
SidebarMount ==
  /\ ~cache.mounted
  /\ cache' = [cache EXCEPT !.mounted = TRUE]
  /\ UNCHANGED <<serverVars, waiter, bus, failures, request, llm, sdk, registry>>

SidebarUnmount ==
  /\ cache.mounted
  /\ cache' = [cache EXCEPT !.mounted = FALSE, !.sidebar = FALSE,
                            !.terminalStatuses = "none"]
  /\ UNCHANGED <<serverVars, waiter, bus, failures, request, llm, sdk, registry>>

\* useProcessingJobsRealtime's effect on processingJobIds, the jobs of the
\* list whose status isJobProcessing: listen to new ones, drop the others.
SidebarEffect ==
  /\ cache.mounted
  /\ LET processing == cache.list # "none" /\ isJobProcessing(cache.list)
     IN /\ cache.sidebar # processing
        /\ cache' = [cache EXCEPT !.sidebar = processing]
  /\ UNCHANGED <<serverVars, waiter, bus, failures, request, llm, sdk, registry>>

\* The shared connection emits a message to its listeners, in the order
\* they were added.
Emit ==
  /\ cache.detail = "listening" \/ cache.sidebar
  /\ \E msg \in ListenerMessages :
       \/ cache' = SidebarListener(DetailListener(cache, msg), msg)
       \/ cache' = DetailListener(SidebarListener(cache, msg), msg)
  /\ UNCHANGED <<serverVars, waiter, bus, failures, request, llm, sdk, registry>>

\* A fetch of the jobs list arrives with the status the server read for the
\* job when it answered.
ListFetched ==
  /\ \E status \in JobStatuses :
       cache' = applyTerminalStatuses([cache EXCEPT !.list = status])
  /\ UNCHANGED <<serverVars, waiter, bus, failures, request, llm, sdk, registry>>

\* A fetch of the job arrives: the first load, or the refetch after
\* invalidateQueries, which was sent after the terminal message.
JobFetched ==
  /\ cache.job = "none" \/ cache.invalidated
  /\ \E status \in IF cache.invalidated THEN Terminal ELSE JobStatuses :
       cache' = [cache EXCEPT !.job = status, !.invalidated = FALSE]
  /\ UNCHANGED <<serverVars, waiter, bus, failures, request, llm, sdk, registry>>

InitCache ==
  /\ job = NoJob
  /\ api = [pc |-> "none", path |-> "none"]
  /\ blob = FALSE
  /\ confirm = [k \in Calls |-> "idle"]
  /\ items = [k \in Items |-> NoItem]
  /\ calls = {}
  /\ upstream = "none"
  /\ ready = "absent"
  /\ subscriptions = {}
  /\ inbox = <<>>
  /\ conn = [c \in Conns |-> NoConn]
  /\ waiter = WaiterFor(MaxWsAttempts)
  /\ published = NothingPublished
  /\ confirmBy = [k \in Calls |-> "none"]
  /\ request = NoRequest
  /\ llm = NoExtraction
  /\ sdk = NoSdkCall
  /\ registry = NoRegistry
  /\ cache = NoCache
  /\ bus = NoBus
  /\ failures = NoFailures

NextCache ==
  \/ DetailMount \/ DetailUnmount \/ SidebarMount \/ SidebarUnmount
  \/ SidebarEffect \/ Emit \/ ListFetched \/ JobFetched

SpecCache == InitCache /\ [][NextCache]_vars

\* ------------------------------ the retry decisions on one work item's failures
\* bullJob.opts.attempts: <<>> when the item was added without the option;
\* the values given reach past MaxAttempts to the handler's fallback.
OptsAttempts == {<<>>} \cup {<<n>> : n \in 1..(MaxAttempts + 1)}

\* opts.attempts ?? fallback
attemptsOr(opts, fallback) == IF opts = <<>> THEN fallback ELSE opts[1]

\* An LlmJsonParseError whose preview of the model's answer holds brackets.
ErrLlmShape ==
  MkError("LlmJsonParseError", "LlmJsonParseError",
          <<"Parsed JSON does not match expected shape", " ", "(preview: ",
            "[", "1", "]", ")">>)

\* The errors the steps of processJob raise.
AttemptErrors ==
  { ErrJobNotFound, ErrNoSource, ErrStorage, ErrOcr, ErrLlmParse, ErrLlmShape,
    ErrNoKey, ErrLlmApi } \cup { ErrFetch(st) : st \in StatusTexts }

\* eventContext.retry.willRetryOnFailure as the catch block of processJob sets
\* it; attemptsMade is bullJob.attemptsMade while the attempt runs.
willRetryOnFailure(error, attemptsMade, opts) ==
  LET maxAttempts == attemptsOr(opts, 1)
      attempt     == attemptsMade + 1
  IN  attempt < maxAttempts /\ isRetryableError(error)

\* shouldRetry as worker.on("failed") computes it; attemptsMade is
\* job.attemptsMade after the queue counted the attempt.
handlerShouldRetry(error, attemptsMade, opts) ==
  shouldRetry(error, attemptsMade, attemptsOr(opts, 3))

\* queue.add with or without opts.attempts.
RetryEnqueue(opts) ==
  /\ failures.state = "none"
  /\ failures' = [failures EXCEPT !.opts = opts, !.state = "wait"]
  /\ UNCHANGED <<serverVars, waiter, cache, bus, request, llm, sdk, registry>>

\* A worker takes the item.
RetryDequeue ==
  /\ failures.state = "wait"
  /\ failures' = [failures EXCEPT !.state = "active"]
  /\ UNCHANGED <<serverVars, waiter, cache, bus, request, llm, sdk, registry>>

\* An attempt fails with error: the catch block, the queue's bookkeeping (an
\* item added without opts.attempts gets one attempt) and the synchronous
\* part of worker.on("failed").
RetryAttemptFails(error) ==
  /\ failures.state = "active"
  /\ LET thrown == CatchRethrow(error)
         item   == [NoItem EXCEPT !.attempts = attemptsOr(failures.opts, 1),
                                  !.attemptsMade = failures.attemptsMade]
         moved  == moveToFailed(item, thrown, error)
         call   == FailedHandlerCall(thrown, moved.attemptsMade,
                                     attemptsOr(failures.opts, 3))
     IN  failures' =
           [failures EXCEPT
              !.attemptsMade = moved.attemptsMade,
              !.state = moved.state,
              !.log = Append(@,
                 [ attempt |-> moved.attemptsMade,
                   caught |-> error,
                   willRetryOnFailure |->
                     willRetryOnFailure(error, failures.attemptsMade, failures.opts),
                   shouldRetry |->
                     handlerShouldRetry(thrown, moved.attemptsMade, failures.opts),
                   redelivered |-> moved.state = "wait",
                   errorCode |-> call.errorCode,
                   errorMessage |-> call.errorMessage ])]
  /\ UNCHANGED <<serverVars, waiter, cache, bus, request, llm, sdk, registry>>

\* The attempt succeeds.
RetryAttemptSucceeds ==
  /\ failures.state = "active"
  /\ failures' = [failures EXCEPT !.state = "completed"]
  /\ UNCHANGED <<serverVars, waiter, cache, bus, request, llm, sdk, registry>>

InitRetry ==
  /\ job = NoJob
  /\ api = [pc |-> "none", path |-> "none"]
  /\ blob = FALSE
  /\ confirm = [k \in Calls |-> "idle"]
  /\ items = [k \in Items |-> NoItem]
  /\ calls = {}
  /\ upstream = "none"
  /\ ready = "absent"
  /\ subscriptions = {}
  /\ inbox = <<>>
  /\ conn = [c \in Conns |-> NoConn]
  /\ waiter = WaiterFor(MaxWsAttempts)
  /\ published = NothingPublished
  /\ confirmBy = [k \in Calls |-> "none"]
  /\ request = NoRequest
  /\ llm = NoExtraction
  /\ sdk = NoSdkCall
  /\ registry = NoRegistry
  /\ cache = NoCache
  /\ bus = NoBus
  /\ failures = NoFailures

NextRetry ==
  \/ \E opts \in OptsAttempts : RetryEnqueue(opts)
  \/ RetryDequeue
  \/ \E error \in AttemptErrors : RetryAttemptFails(error)
  \/ RetryAttemptSucceeds

SpecRetry == InitRetry /\ [][NextRetry]_vars

\* The worker alone, under fair scheduling, for a job createFromUrl returned:
\* its work item was added with opts.attempts or without.
InitWorker ==
  /\ \E type \in JobTypes : job = InsertedRow(type, TRUE, type = "extract")
  /\ api = [pc |-> "returned", path |-> "url"]
  /\ blob = FALSE
  /\ confirm = [k \in Calls |-> "idle"]
  /\ \E opts \in OptsAttempts :
       items = [k \in Items |->
                  IF k = 1
                    THEN [NoItem EXCEPT !.state = "wait",
                                        !.attempts = attemptsOr(opts, 1),
                                        !.optsGiven = opts # <<>>]
                    ELSE NoItem]
  /\ calls = {}
  /\ upstream = "none"
  /\ ready = "absent"
  /\ subscriptions = {}
  /\ inbox = <<>>
  /\ conn = [c \in Conns |-> NoConn]
  /\ waiter = WaiterFor(MaxWsAttempts)
  /\ published = NothingPublished
  /\ confirmBy = [k \in Calls |-> "none"]
  /\ cache = NoCache
  /\ bus = NoBus
  /\ failures = NoFailures
  /\ request = NoRequest
  /\ llm = NoExtraction
  /\ sdk = NoSdkCall
  /\ registry = NoRegistry

SpecWorker == InitWorker /\ [][Worker]_vars

\* The steps of processJob for one delivery of item i.
AttemptStep(i) ==
  \/ Dequeue(i) \/ LoadJob(i) \/ StartProcessing(i) \/ ObtainSource(i)
  \/ RunOcr(i) \/ SaveMarkdown(i) \/ StartExtracting(i) \/ RunLlm(i)
  \/ Complete(i) \/ Acknowledge(i)

\* Fair scheduling with collaborators that answer: a delivery the worker can
\* go on with goes on, and a started failJob call writes.
SpecWorkerFair ==
  SpecWorker /\ \A i \in Items : WF_vars(AttemptStep(i)) /\ WF_vars(FailedHandler(i))

\* ------------------------- services/realtime under calls of several handlers
\* Promise.race([ready, setTimeout(1000)]) has settled: the SUBSCRIBE was
\* confirmed, or it failed (the entry is gone), or it is pending and the
\* timer has run out.
raceSettles_NoTimeout(readyState) == readyState \in {"resolved", "absent"}
raceSettles(readyState) ==
  \/ readyState = "resolved"
  \/ readyState = "absent"
  \/ readyState = "pending"

\* subscribeToJob(jobId, handler): without a Redis URL it returns at once;
\* else the handler is registered, and the call awaits the subscriptionReady
\* entry if there is one.
CallSubscribeToJob(h) ==
  /\ bus.call[h] = "idle"
  /\ IF ~bus.redis
       THEN /\ bus' = [bus EXCEPT !.call[h] = "returned", !.added[h] = FALSE,
                                  !.by[h] = "no redis"]
            /\ UNCHANGED <<upstream, ready, subscriptions>>
       ELSE /\ SubscribeToJob(h)
            /\ bus' = IF ready' = "absent"
                        THEN [bus EXCEPT !.call[h] = "returned",
                                         !.added[h] = h \in subscriptions',
                                         !.by[h] = "no entry"]
                        ELSE [bus EXCEPT !.call[h] = "awaiting",
                                         !.added[h] = h \in subscriptions',
                                         !.by[h] = "none"]
  /\ UNCHANGED <<job, api, blob, confirm, items, calls, inbox, conn, published,
                 confirmBy, waiter, cache, failures, request,
                 llm, sdk, registry>>

\* The await of subscribeToJob ends; a rejection is caught.
SubscribeToJobReturns(h) ==
  /\ bus.call[h] = "awaiting"
  /\ raceSettles(ready)
  /\ bus' = [bus EXCEPT !.call[h] = "returned",
                        !.by[h] = IF ready = "resolved" THEN "ready"
                                  ELSE IF ready = "pending" THEN "timeout"
                                  ELSE "failed"]
  /\ UNCHANGED <<serverVars, waiter, cache, failures, request, llm, sdk, registry>>

\* unsubscribeFromJob(jobId, handler), by the owner of a handler whose
\* subscribeToJob call was made; after it the owner may subscribe again.
CallUnsubscribeFromJob(h) ==
  /\ bus.call[h] # "idle"
  /\ bus.call[h] = "awaiting" => h \in subscriptions
  /\ subscriptions' = HandlersAfterUnsubscribe(subscriptions, h)
  /\ IF ChannelDropped(subscriptions, {h})
       THEN upstream' = "none" /\ ready' = "absent"
       ELSE UNCHANGED <<upstream, ready>>
  /\ bus' = IF bus.call[h] = "returned"
              THEN [bus EXCEPT !.call[h] = "idle"]
              ELSE bus
  /\ UNCHANGED <<job, api, blob, confirm, items, calls, inbox, conn, published,
                 confirmBy, waiter, cache, failures, request,
                 llm, sdk, registry>>

InitBus ==
  /\ job = NoJob
  /\ api = [pc |-> "none", path |-> "none"]
  /\ blob = FALSE
  /\ confirm = [k \in Calls |-> "idle"]
  /\ items = [k \in Items |-> NoItem]
  /\ calls = {}
  /\ upstream = "none"
  /\ ready = "absent"
  /\ subscriptions = {}
  /\ inbox = <<>>
  /\ conn = [c \in Conns |-> NoConn]
  /\ waiter = WaiterFor(MaxWsAttempts)
  /\ published = NothingPublished
  /\ confirmBy = [k \in Calls |-> "none"]
  /\ request = NoRequest
  /\ llm = NoExtraction
  /\ sdk = NoSdkCall
  /\ registry = NoRegistry
  /\ cache = NoCache
  /\ \E redis \in BOOLEAN : bus = [NoBus EXCEPT !.redis = redis]
  /\ failures = NoFailures

NextBus ==
  \/ \E h \in Handlers : CallSubscribeToJob(h)
  \/ \E h \in Handlers : SubscribeToJobReturns(h)
  \/ \E h \in Handlers : CallUnsubscribeFromJob(h)
  \/ SubscribeConfirmed
  \/ SubscribeRejected

SpecBus == InitBus /\ [][NextBus]_vars

\* The awaits of the calls end: promises and timers are served.
SpecBusFair ==
  SpecBus /\ \A h \in Handlers : WF_vars(SubscribeToJobReturns(h))

Next == Admission \/ Worker

\* The realtime gateway beside the worker, for a job createFromUrl returned
\* and one delivery of its work item.
InitRealtime ==
  /\ \E type \in JobTypes : job = InsertedRow(type, TRUE, type = "extract")
  /\ api = [pc |-> "returned", path |-> "url"]
  /\ blob = FALSE
  /\ confirm = [k \in Calls |-> "idle"]
  /\ \E n \in 1..MaxAttempts :
       items = [k \in Items |-> IF k = 1
                                  THEN [NoItem EXCEPT !.state = "wait", !.attempts = n]
                                  ELSE NoItem]
  /\ calls = {}
  /\ upstream = "none"
  /\ ready = "absent"
  /\ subscriptions = {}
  /\ inbox = <<>>
  /\ conn = [c \in Conns |-> NoConn]
  /\ waiter = WaiterFor(MaxWsAttempts)
  /\ published = NothingPublished
  /\ confirmBy = [k \in Calls |-> "none"]
  /\ cache = NoCache
  /\ bus = NoBus
  /\ failures = NoFailures
  /\ request = NoRequest
  /\ llm = NoExtraction
  /\ sdk = NoSdkCall
  /\ registry = NoRegistry

NextRealtime == Processing \/ Gateway

SpecRealtime == InitRealtime /\ [][NextRealtime]_vars

\* One waitForCompletedJob call against a socket that may deliver any message
\* of the gateway, fail or close at any time.
InitWaiter ==
  /\ job = NoJob
  /\ api = [pc |-> "none", path |-> "none"]
  /\ blob = FALSE
  /\ confirm = [k \in Calls |-> "idle"]
  /\ items = [k \in Items |-> NoItem]
  /\ calls = {}
  /\ upstream = "none"
  /\ ready = "absent"
  /\ subscriptions = {}
  /\ inbox = <<>>
  /\ conn = [c \in Conns |-> NoConn]
  /\ \E max \in 0..MaxWsAttempts : waiter = WaiterFor(max)
  /\ published = NothingPublished
  /\ confirmBy = [k \in Calls |-> "none"]
  /\ cache = NoCache
  /\ bus = NoBus
  /\ failures = NoFailures
  /\ request = NoRequest
  /\ llm = NoExtraction
  /\ sdk = NoSdkCall
  /\ registry = NoRegistry

SpecWaiter == InitWaiter /\ [][Waiter]_vars

Spec == Init /\ [][Next]_vars


\* ------------------------------------------------------------------- claims
EnqueuedItems == {i \in Items : items[i].state # "none"}

\* The classification the specification gives for an unrecoverable failure.
ClaimedUnrecoverable(error) ==
  \/ error.cls \in {"UnrecoverableError", "LlmJsonParseError"}
  \/ NON_RETRYABLE_MESSAGE_PATTERN(error.message)

\* The step is the failJob write of call c.
IsFailJobWrite(c) == c \in calls /\ calls' = calls \ {c}

\* C1: once the stored status is completed or failed it never changes again.
C1_TerminalStatusIsFinal ==
  [][(job.exists /\ job'.exists /\ job.status \in Terminal)
       => job'.status = job.status]_vars

\* C2: every change of the stored status is an edge of the DAG of section 4.2.
DagEdges(type) ==
  { <<"pending", "processing">>, <<"processing", "failed">>,
    <<"extracting", "failed">>, <<"extracting", "completed">> }
  \cup (IF type = "extract" THEN { <<"processing", "extracting">> }
        ELSE { <<"processing", "completed">> })

C2_StatusChangesFollowDag ==
  [][(job.exists /\ job'.exists /\ job'.status # job.status)
       => <<job.status, job'.status>> \in DagEdges(job.type)]_vars

\* C3: after a first successful confirmUpload every further confirmUpload
\* returns an error, and at most one work item is ever enqueued for the job.
C3_SecondConfirmRejected ==
  /\ Cardinality({k \in Calls : confirm[k] = "returned"}) <= 1
  /\ Cardinality(EnqueuedItems) <= 1

\* C4: a failed blob upload leaves the row failed with UPLOAD_FAILED, a failed
\* enqueue leaves it failed with ENQUEUE_FAILED; no row stays pending with no
\* work item.
C4_AdmissionFailureMarksFailed ==
  /\ (job.exists /\ api.pc = "threwUpload")
       => (job.status = "failed" /\ job.errorCode = <<"UPLOAD_FAILED">>)
  /\ (job.exists /\ api.pc = "threwEnqueue")
       => (job.status = "failed" /\ job.errorCode = <<"ENQUEUE_FAILED">>)

\* C7: a work item whose attempts all fail with a retryable error is attempted
\* exactly opts.attempts times, and once the handlers have written, the stored
\* status is failed.
C7_RetryableFailuresExhaustAttempts ==
  /\ \A i \in Items :
       /\ items[i].attemptsMade <= items[i].attempts
       /\ (items[i].state = "failed" /\ ~ClaimedUnrecoverable(items[i].lastError))
            => items[i].attemptsMade = items[i].attempts
  /\ ( /\ job.exists /\ calls = {} /\ EnqueuedItems # {}
       /\ \A i \in EnqueuedItems :
            items[i].state = "failed" /\ ~ClaimedUnrecoverable(items[i].lastError) )
       => job.status = "failed"

C7_Witness ==
  /\ job.exists /\ calls = {} /\ job.status = "failed"
  /\ items[1].state = "failed" /\ items[1].attempts = MaxAttempts
  /\ items[1].attemptsMade = MaxAttempts
  /\ ~ClaimedUnrecoverable(items[1].lastError)

\* C8: the handler of a retryable failure with attempts left records the error
\* and leaves the status as it is; the status turns failed only in the handler
\* of an unrecoverable failure or of the failure that used up the attempts.
C8_NotFailedWhileRetriesRemain ==
  [][ /\ \A c \in calls :
           ( /\ IsFailJobWrite(c) /\ job.exists
             /\ ~ClaimedUnrecoverable(c.caught)
             /\ c.attempts < items[c.item].attempts )
           => /\ job'.status = job.status
              /\ job'.errorCode = c.errorCode
              /\ job'.errorMessage = c.errorMessage
              /\ job'.errorCode # NULL /\ job'.errorMessage # NULL
      /\ (job'.status = "failed" /\ job.status # "failed")
           => \E c \in calls :
                /\ IsFailJobWrite(c)
                /\ \/ ClaimedUnrecoverable(c.caught)
                   \/ c.attempts >= items[c.item].attempts ]_vars

C8_Witness ==
  /\ job.exists /\ job.status = "processing" /\ job.errorCode # NULL
  /\ items[1].state = "wait" /\ items[1].attemptsMade = 1 /\ calls = {}
  /\ items[2].state = "none"

\* C9: an unrecoverable failure (by class or by message, also when the message
\* matches the retryable pattern too) ends the work item after that attempt and
\* its handler marks the job failed; every other failure is retried while
\* attempts remain.
C9_ClassificationDecidesRetry ==
  /\ \A c \in calls :
       /\ ClaimedUnrecoverable(c.caught)
            => /\ ~c.shouldRetry
               /\ items[c.item].state = "failed"
               /\ items[c.item].attemptsMade = c.attempts
       /\ (~ClaimedUnrecoverable(c.caught) /\ c.attempts < items[c.item].attempts)
            => /\ c.shouldRetry
               /\ ~(items[c.item].state = "failed"
                    /\ items[c.item].attemptsMade = c.attempts)
  /\ \A i \in Items :
       /\ (items[i].attemptsMade > 0 /\ ClaimedUnrecoverable(items[i].lastError))
            => items[i].state = "failed"
       /\ ( /\ items[i].state = "wait" /\ items[i].attemptsMade > 0 )
            => ~ClaimedUnrecoverable(items[i].lastError)
       /\ ( /\ items[i].state = "failed"
            /\ items[i].attemptsMade < items[i].attempts )
            => ClaimedUnrecoverable(items[i].lastError)

C9_Witness ==
  \E c \in calls :
    /\ c.caught = ErrJobNotFound
    /\ RETRYABLE_MESSAGE_PATTERN(c.caught.message)
    /\ c.attempts = 1 /\ items[c.item].attempts = MaxAttempts
    /\ items[c.item].state = "failed" /\ ~c.shouldRetry

\* C10: the errorCode of a failed job is one of the codes of the taxonomy.
TaxonomyCodes ==
  { <<"UPLOAD_FAILED">>, <<"ENQUEUE_FAILED">>, <<"JOB_NOT_FOUND">>,
    <<"NO_SOURCE">>, <<"FETCH_FAILED">>, <<"OCR_FAILED">>,
    <<"SCHEMA_NOT_FOUND">>, <<"LLM_PARSE_FAILED">>, <<"TIMEOUT">> }

C10_FailedJobHasTaxonomyCode ==
  (job.exists /\ job.status = "failed") => job.errorCode \in TaxonomyCodes


HasEvent(c, type) == \E k \in DOMAIN conn[c].sent : conn[c].sent[k].type = type

\* C5: a job completed between the gateway's first lookup and the moment the
\* bus subscription takes effect still reaches the subscriber as a completed
\* event: once the subscription is in effect, the initial event is sent and
\* nothing is left to dispatch, the connection has been sent completed.
C5_CompletionInWindowIsDelivered ==
  \A c \in Conns :
    ( /\ conn[c].inWindow /\ conn[c].pc = "streaming" /\ ~conn[c].gone
      /\ upstream = "active" /\ inbox = <<>> )
    => HasEvent(c, "completed")

\* C6: a subscriber that connects to an already terminal job is sent exactly
\* the terminal event made from the snapshot, no status event, and the stream
\* is closed, on the SSE and on the WebSocket profile.
C6_LateSubscriberGetsTerminalAndClose ==
  \A c \in Conns :
    (conn[c].lateJoin /\ conn[c].pc = "streaming" /\ ~conn[c].gone)
    => /\ conn[c].sent = <<SnapshotEvent(job.status)>>
       /\ conn[c].closed

\* C11: the row holds an errorCode exactly when its status is failed.
C11_ErrorCodeIffFailed ==
  job.exists => ((job.errorCode # NULL) <=> (job.status = "failed"))

\* C12: the row holds a jsonResult exactly when the job is an extract job and
\* its status is completed.
C12_JsonResultIffExtractCompleted ==
  job.exists =>
    (job.jsonResult <=> (job.type = "extract" /\ job.status = "completed"))

\* C13: a completed or error event is the last event sent on its connection:
\* with it the stream is closed and the connection's handler is out of the
\* channel's handler set.
C13_TerminalEventEndsStream ==
  \A c \in Conns : \A k \in DOMAIN conn[c].sent :
    IsTerminalEvent(conn[c].sent[k])
    => /\ k = Len(conn[c].sent)
       /\ conn[c].closed
       /\ c \notin subscriptions

\* C20: when the upstream subscribe failed, a connection that has been through
\* subscribeToJob and has sent its initial event has sent the gateway's own
\* error event (no status failed) last and is closed.
C20_BusFailureSendsErrorAndCloses ==
  \A c \in Conns :
    ( /\ conn[c].pc = "streaming" /\ c \in subscriptions /\ ~conn[c].gone
      /\ upstream = "none" /\ ready = "absent" )
    => /\ conn[c].sent # <<>>
       /\ conn[c].sent[Len(conn[c].sent)] = GatewayErrorMsg
       /\ conn[c].closed

\* C14: the handler of a subscriber that has disconnected is not in the
\* channel's handler set, and its heartbeat is not running.
C14_DisconnectReleasesHandler ==
  \A c \in Conns :
    conn[c].gone => (c \notin subscriptions /\ ~HeartbeatRunning(c))

\* C15: the process holds an upstream subscription to the channel (SUBSCRIBE
\* issued and not undone) exactly when the channel's handler set is non-empty.
C15_UpstreamIffHandlers ==
  (subscriptions # {}) <=> (upstream \in {"pending", "active"})

\* C16: the wait ends with the job-failure result (the error made from an
\* error message) only on an error message whose data carries status failed.
C16_JobFailureOnlyOnFailedStatus ==
  (waiter.result.kind = "error" /\ waiter.result.by = "message")
  => waiter.result.message.status = "failed"

\* The three parts of C17 for a cap on the number of connections.
ReconnectsBoundedBy(cap) ==
  /\ waiter.opened <= cap
  /\ \A k \in DOMAIN waiter.delays :
       waiter.delays[k].attempts = waiter.delays[k].after
       => waiter.delays[k].delay =
            DEFAULT_WS_RECONNECT_BASE_DELAY_MS * 2 ^ (waiter.delays[k].after - 1)
  /\ ( /\ waiter.sock = "CLOSED" /\ waiter.attempts = waiter.opened
       /\ waiter.opened >= cap
       /\ waiter.result.by \notin {"message", "timeout"} )
     => waiter.result = SdkError(503, "retries", NoMsg)

\* C17: at most wsMaxReconnectAttempts connections are opened, the reopen after
\* the k-th connection waits wsReconnectBaseDelayMs * 2^(k-1), and when the
\* last connection has closed the wait is resolved with the 503 error.
C17_AtMostMaxConnections ==
  ReconnectsBoundedBy(waiter.wsMaxReconnectAttempts)

\* C17, amended: the first connection is opened whatever the setting, so the
\* cap is max(1, wsMaxReconnectAttempts).
C17_AtMostMaxConnectionsOrOne ==
  ReconnectsBoundedBy(IF waiter.wsMaxReconnectAttempts > 1
                        THEN waiter.wsMaxReconnectAttempts ELSE 1)

C17_Witness ==
  /\ waiter.wsMaxReconnectAttempts = MaxWsAttempts
  /\ waiter.opened = MaxWsAttempts /\ waiter.attempts = MaxWsAttempts
  /\ Len(waiter.delays) = MaxWsAttempts - 1
  /\ waiter.sock = "CLOSED"
  /\ waiter.result = SdkError(503, "retries", NoMsg)

\* C18: once the wait is resolved by the caller's timeout, the result is the
\* 408 error, no socket is connecting or open, no reconnect timer is pending,
\* and no further socket is created.
C18_TimeoutEndsTheWait ==
  [][ /\ waiter'.result.by = "timeout"
         => /\ waiter'.result = SdkError(408, "timeout", NoMsg)
            /\ waiter'.settled
            /\ waiter'.sock \notin {"CONNECTING", "OPEN"}
            /\ waiter'.reconnectTimer = 0
      /\ waiter.result.by = "timeout"
         => /\ waiter'.opened = waiter.opened
            /\ waiter'.result = waiter.result ]_vars

C18_Witness ==
  /\ waiter.result.by = "timeout" /\ waiter.opened = 2
  /\ waiter.sock = "CLOSING"

\* The waiter with its socket open, and what it is after the message events
\* for the events a connection was sent.
OpenWaiter ==
  [connect([WaiterFor(MaxWsAttempts) EXCEPT !.pc = "waiting", !.timeout = TRUE],
           "socket") EXCEPT !.sock = "OPEN"]

RECURSIVE Deliver(_, _)
Deliver(w, messages) ==
  IF messages = <<>> THEN w
  ELSE Deliver(handleMessage(w, Head(messages)), Tail(messages))

StatusAfterTerminal(c) ==
  \E k, m \in DOMAIN conn[c].sent :
    k < m /\ IsTerminalEvent(conn[c].sent[k]) /\ conn[c].sent[m].type = "status"

\* C21: on one connection the status event made from the snapshot is never
\* sent after a bus event of a later write, and no status event is sent after
\* a terminal event.
C21_EventsInWriteOrder ==
  \A c \in Conns : ~conn[c].snapLate /\ ~StatusAfterTerminal(c)

\* The answer to a caller of the job's organization asking for a job that does
\* not exist.
NotFoundOutcome(profile) ==
  Admit(profile, [NoCredentials EXCEPT !.apiKey = OwnerOrg], NoJob)

\* C22: a connection of an unauthenticated caller or of a caller of another
\* tenant is rejected at once, its handler is never registered and it is sent
\* nothing but the gateway's own error; the caller of another tenant is
\* answered as for a job that does not exist.
C22_NoStreamForStrangers ==
  \A c \in Conns :
    /\ conn[c].caller \in {"unauthenticated", "otherTenant"}
         => /\ conn[c].pc = "rejected"
            /\ c \notin subscriptions
            /\ conn[c].closed
            /\ \A k \in DOMAIN conn[c].sent : conn[c].sent[k] = GatewayErrorMsg
    /\ conn[c].caller = "otherTenant"
         => /\ conn[c].reply = NotFoundOutcome(conn[c].profile).reply
            /\ conn[c].sent = NotFoundOutcome(conn[c].profile).sent
            /\ conn[c].closed = NotFoundOutcome(conn[c].profile).closed
    /\ \A profile \in {"sse", "ws"}, cred \in Callers :
         CallerKind(profile, cred, job) \in {"unauthenticated", "otherTenant"}
         => Admit(profile, cred, job) = Admit(profile, cred, NoJob)

C22_Witness ==
  \E c \in Conns :
    /\ conn[c].caller = "otherTenant" /\ conn[c].profile = "ws"
    /\ conn[c].reply = "Job not found"
    /\ job.exists /\ job.status = "completed" /\ inbox = <<>>

\* C23: an extract job whose schema reference resolves to no stored schema is
\* never moved to extracting, the LLM is not called for it, and it does not
\* complete.
C23_MissingSchemaFailsBeforeExtracting ==
  (job.exists /\ job.type = "extract" /\ ~job.schema)
  => /\ job.status \notin {"extracting", "completed"}
     /\ \A i \in Items : items[i].pc \notin {"llm", "complete", "return"}

\* C24: for the job at most one completed event and at most one error event
\* with status failed is published, and never both.
C24_AtMostOneTerminalEvent ==
  /\ published.completed <= 1
  /\ published.failed <= 1
  /\ published.completed + published.failed <= 1

\* C25: until a confirmUpload has returned, the presigned job is pending and
\* has no work item; a confirmUpload passes its checks only for a caller of the
\* job's organization while the row is pending, has a fileKey and the object
\* exists; only a call that passed them enqueues; and a call that fails leaves
\* the row and the queue as they were.
C25_ConfirmEnqueuesOnlyAfterChecks ==
  /\ []( (api.path = "presign" /\ \A k \in Calls : confirm[k] # "returned")
         => /\ job.exists => job.status = "pending"
            /\ EnqueuedItems = {} )
  /\ [][ /\ \A k \in Calls :
              (confirm[k] = "idle" /\ confirm'[k] = "checked")
              => /\ job.exists /\ job.organizationId = confirmBy'[k]
                 /\ job.status = "pending" /\ job.fileKey /\ blob
         /\ (api.path = "presign" /\ EnqueuedItems' # EnqueuedItems)
              => \E k \in Calls : confirm[k] = "checked" /\ confirm'[k] = "returned"
         /\ \A k \in Calls :
              (confirm'[k] # confirm[k] /\ confirm'[k] \notin {"checked", "returned"})
              => job' = job /\ items' = items ]_vars

C25_Witness ==
  /\ confirm[1] = "returned" /\ confirmBy[1] = OwnerOrg
  /\ confirm[2] = "NotFound: Job not found" /\ confirmBy[2] = OtherOrg
  /\ job.exists /\ Cardinality(EnqueuedItems) = 1

\* The scheme of a url: the characters before the first ":".
Scheme(text) ==
  IF IndexOf(text, ":") = 0 THEN <<>> ELSE SubSeq(text, 1, IndexOf(text, ":") - 1)

\* A submission as the specification admits it: exactly one of file and url
\* (an empty url counts as none), and the url's scheme is http or https.
ExactlyOneSource(body) ==
  LET hasUrl == body.url.given /\ body.url.text # <<>> IN
  /\ body.file # hasUrl
  /\ hasUrl => Scheme(body.url.text) \in {Http, Http \o <<"s">>}

\* C26: a direct submission creates a job exactly when it carries exactly one
\* of file and url and a given url is http(s); every other submission is
\* rejected with the validation error and leaves no row and no work item.
C26_ExactlyOneSourceCreatesJob ==
  (request.pc = "threw" \/ (request.pc = "received" /\ api.pc # "none"))
  => IF ExactlyOneSource(request.body)
       THEN request.pc = "received" /\ api.pc # "none"
       ELSE /\ request.pc = "threw"
            /\ request.error = "BadRequestError: File or URL is required"
            /\ ~job.exists /\ EnqueuedItems = {}

\* The step is the parseDocument call of item i's attempt.
IsOcrCall(i) ==
  items[i].state = "active" /\ items[i].pc = "ocr" /\ items'[i].pc # "ocr"

\* C27: the OCR collaborator is not invoked once an attempt has persisted the
\* job's markdownResult.
C27_NoOcrAfterMarkdownPersisted ==
  [][\A i \in Items : IsOcrCall(i) => ~(job.exists /\ job.markdownResult)]_vars

\* A response as the specification accepts it: it holds exactly one JSON
\* value that is a plain object with every required key of the schema among
\* its own keys.
HoldsRequiredObject(text, schema) ==
  Cardinality({ c \in collectJsonCandidates(text) :
                  /\ JsonParses(c) /\ c[1].kind = "object"
                  /\ getRequiredTopLevelKeys(schema) \subseteq c[1].keys }) = 1

\* The response processExtraction parsed last.
LastResponse == IF llm.repaired THEN llm.repair ELSE llm.first

\* C28: processExtraction makes at most two LLM calls, the second only after
\* a first response that is not acceptable; it returns only a plain object
\* that holds every required top-level key, taken from an acceptable
\* response; and when the last response is not acceptable it throws
\* LlmJsonParseError.
C28_AtMostOneRepairAndValidData ==
  /\ llm.calls <= 2
  /\ llm.repaired => ~HoldsRequiredObject(llm.first, llm.schema)
  /\ llm.pc = "returned"
       => /\ llm.data.kind = "object"
          /\ getRequiredTopLevelKeys(llm.schema) \subseteq llm.data.keys
          /\ HoldsRequiredObject(LastResponse, llm.schema)
  /\ (llm.pc = "threw" /\ llm.repaired)
       => /\ llm.error = "LlmJsonParseError: JSON Parse error"
          /\ ~HoldsRequiredObject(llm.repair, llm.schema)

\* C29: a parse or extract call made with no apiKey option and no
\* OCRBASE_API_KEY in the environment ends with the Missing API key error,
\* and has read no file, sent no HTTP request and opened no realtime
\* connection.
C29_MissingApiKeyFailsFirst ==
  (sdk.pc \notin {"none", "called"} /\ sdk.apiKey = "undefined" /\ sdk.env = "unset")
  => /\ sdk.pc = "rejected"
     /\ sdk.error = "Missing API key"
     /\ sdk.fileReads = 0 /\ sdk.requests = 0 /\ sdk.sockets = 0

C29_Witness ==
  /\ sdk.pc = "rejected" /\ sdk.fn = "extract" /\ sdk.file = "path"
  /\ sdk.apiKey = "undefined" /\ sdk.env = "unset"

\* ---------------------------------------------------------------- C30
\* Connection objects of the jobId that were not torn down, and the retain()
\* calls on a connection whose release function was not called yet.
LiveConnections ==
  {o \in JobConnections : /\ registry.connection[o].created
                          /\ ~registry.connection[o].destroyed}
Unreleased(o) ==
  {h \in Releases : /\ registry.release[h].made
                    /\ registry.release[h].connection = o
                    /\ ~registry.release[h].released}
RegistryState ==
  /\ Cardinality(LiveConnections) <= 1
  /\ \A o \in JobConnections :
       /\ registry.connection[o].refCount = Cardinality(Unreleased(o))
       /\ registry.connection[o].destroyed =>
            /\ ~registry.connection[o].retryTimeout
            /\ registry.connection[o].socket = "null"
RefCountDrops(o) ==
  /\ registry.connection[o].refCount > 0
  /\ registry'.connection[o].refCount = 0
RegistryStep ==
  /\ \A h \in Releases :
       (/\ registry.release[h].released
        /\ registry'.release[h].calls > registry.release[h].calls)
       => registry'.connection = registry.connection
  /\ \A o \in JobConnections :
       /\ RefCountDrops(o) =>
            /\ registry'.connection[o].destroyed
            /\ registry'.connection[o].socket = "null"
            /\ registry'.connections # o
       /\ (registry.connections = o /\ registry'.connections # o)
            => RefCountDrops(o)
       /\ (~registry.connection[o].destroyed /\ registry'.connection[o].destroyed)
            => RefCountDrops(o)
       /\ registry.connection[o].destroyed =>
            /\ registry'.connection[o].socket = registry.connection[o].socket
            /\ registry'.connection[o].retries = registry.connection[o].retries
            /\ registry'.connection[o].retryTimeout
                 = registry.connection[o].retryTimeout

\* C30: for every sequence of getJobConnection / retain / release calls of
\* the web client there is at most one connection object per jobId; its
\* refCount is the number of retain() calls whose release function was not
\* called yet; calling a release function again does not decrement again;
\* the socket is closed and the registry entry removed exactly when refCount
\* drops to 0; and no reconnect is scheduled or fires after teardown.
C30_SharedConnectionRegistry ==
  [](RegistryState) /\ [][RegistryStep]_vars

\* ---------------------------------------------------------------- C31
\* C31: a listener added to a shared web connection after the connection
\* received a terminal message (completed, or error with status failed) is
\* called at once with that terminal message; an error message without
\* status failed is never stored or replayed to later listeners.
C31_TerminalMessageReplayed ==
  /\ \A l \in Listeners :
       registry.listener[l].on # 0 =>
         /\ registry.listener[l].heard # NoMessage
              => registry.listener[l].replay = registry.listener[l].heard
         /\ registry.listener[l].replay.status # "undefined"
  /\ \A o \in JobConnections :
       registry.connection[o].terminal.status # "undefined"
C31_Witness ==
  \E l \in Listeners :
    /\ registry.listener[l].on # 0
    /\ registry.listener[l].plain
    /\ registry.listener[l].heard.type = "error"
    /\ registry.listener[l].replay = [type |-> "error", status |-> "failed"]

\* ---------------------------------------------------------------- C32
\* C32: once the web client has recorded a terminal status for a job, no
\* realtime message and no list fetch that arrives later puts a non-terminal
\* status into the cached job or into the job's row of the cached jobs list.
NonTerminal == JobStatuses \ Terminal
C32_NoRegressionAfterTerminal ==
  [][ (cache.recorded # "none" /\ (Emit \/ ListFetched)) =>
        /\ cache'.job \in NonTerminal => cache'.job = cache.job
        /\ cache'.list \in NonTerminal => cache'.list = cache.list ]_vars

\* ---------------------------------------------------------------- C33
\* C33: if the upstream SUBSCRIBE for a channel fails, a later subscribeToJob
\* call for the same channel issues a new upstream SUBSCRIBE, so the channel
\* is not left with registered handlers and no upstream subscription for as
\* long as any handler stays registered.
C33_ResubscribeAfterFailure ==
  [][ \A h \in Handlers :
        (/\ bus.redis /\ upstream = "none"
         /\ bus.call[h] = "idle" /\ bus'.call[h] # "idle")
        => upstream' = "pending" ]_vars

\* ---------------------------------------------------------------- C34
\* C34: subscribeToJob never rejects and always settles: every call that
\* awaits returns, by the subscribe being ready, by its failure, or by the
\* timer while the subscribe is pending, and the handler was registered by
\* the call in each of these cases; without a Redis URL the call returns at
\* once and registers nothing.
SubscribeToJobCalled(h) == bus.call[h] = "idle" /\ bus'.call[h] # "idle"
SubscribeToJobStep ==
  \A h \in Handlers :
    /\ SubscribeToJobCalled(h) =>
         IF bus.redis
           THEN h \in subscriptions' /\ bus'.added[h]
           ELSE /\ bus'.call[h] = "returned"
                /\ subscriptions' = subscriptions
                /\ upstream' = upstream
                /\ ~bus'.added[h]
    /\ (bus.call[h] = "awaiting" /\ bus'.call[h] = "returned") =>
         /\ bus'.added[h]
         /\ bus'.by[h] \in {"ready", "failed", "timeout"}
         /\ bus'.by[h] = "ready" => ready = "resolved"
         /\ bus'.by[h] = "timeout" => ready = "pending"
         /\ bus'.by[h] = "failed" => ready = "absent"
C34_SubscribeToJobSettles ==
  /\ [][SubscribeToJobStep]_vars
  /\ \A h \in Handlers : (bus.call[h] = "awaiting") ~> (bus.call[h] = "returned")
C34_Witness ==
  /\ bus.redis
  /\ bus.call[1] = "returned" /\ bus.by[1] = "timeout" /\ bus.added[1]
  /\ bus.call[2] = "returned" /\ bus.by[2] = "failed" /\ bus.added[2]

TerminalEventsSent(c) ==
  { k \in DOMAIN conn[c].sent : conn[c].sent[k].type \in {"completed", "error"} }
C36_AtMostOneTerminalEvent ==
  \A c \in Conns : Cardinality(TerminalEventsSent(c)) <= 1

\* ---------------------------------------------------------------- C37
\* C37: waitForCompletedJob settles exactly once: the result is set by the
\* step that settles and by no other, and after it no event changes the
\* result, opens a socket or leaves a timer pending.
WaiterSettledState ==
  /\ waiter.settled <=> waiter.result # NoResult
  /\ waiter.settled <=> waiter.pc = "resolved"
  /\ waiter.settled => (~waiter.timeout /\ waiter.reconnectTimer = 0 /\ ~waiter.wsSet)
  /\ waiter.settled =>
       waiter.result.by \in {"message", "timeout", "retries", "createWebSocket"}
WaiterSettledStep ==
  /\ waiter.settled =>
       /\ waiter'.settled
       /\ waiter'.result = waiter.result
       /\ waiter'.opened = waiter.opened
       /\ waiter'.attempts = waiter.attempts
       /\ waiter'.sock \notin {"CONNECTING", "OPEN"}
  /\ waiter'.result # waiter.result => (~waiter.settled /\ waiter'.settled)
C37_WaiterSettlesOnce == [](WaiterSettledState) /\ [][WaiterSettledStep]_vars
C37_Witness ==
  /\ waiter.settled /\ waiter.result.by = "message"
  /\ waiter.sock = "CLOSED" /\ waiter.attempts < waiter.wsMaxReconnectAttempts

\* ---------------------------------------------------------------- C38
\* C38: whenever extract() has created a temporary schema and keepSchema is
\* not true, the DELETE of the schema has been sent before extract() returns,
\* on every outcome: success, job failure, realtime failure or timeout, and
\* rejection of the extract submission after the schema was created.
C38_TemporarySchemaDeleted ==
  ( /\ sdk.fn = "extract" /\ sdk.pc = "returned"
    /\ sdk.schema # "none" /\ ~sdk.keepSchema )
  => sdk.deleteCalls = 1

\* ---------------------------------------------------------------- C40
\* C40: for every error code and message the worker produces for an
\* unrecoverable failure, decodeUnrecoverableMessage of the encoded message
\* returns the same code and the same message, so the code and message the
\* failed-handler passes to failJob are the ones the failing attempt
\* classified.
ClassifiedAs(error) == toErrorContext(error)
C40_UnrecoverableMessageRoundTrip ==
  \A k \in DOMAIN failures.log :
    LET e == failures.log[k] IN
    ~isRetryableError(e.caught) =>
      /\ decodeUnrecoverableMessage(
           encodeUnrecoverableMessage(ClassifiedAs(e.caught).code,
                                      ClassifiedAs(e.caught).message))
           = [ ok |-> TRUE, code |-> ClassifiedAs(e.caught).code,
               message |-> ClassifiedAs(e.caught).message ]
      /\ e.errorCode = ClassifiedAs(e.caught).code
      /\ e.errorMessage = ClassifiedAs(e.caught).message
C40_Witness ==
  /\ failures.log # <<>>
  /\ failures.log[Len(failures.log)].caught = ErrLlmShape
  /\ failures.log[Len(failures.log)].errorCode = <<"LlmJsonParseError">>
  /\ failures.state = "failed"

\* ---------------------------------------------------------------- C39
\* C39: under fair scheduling and collaborators that answer, every job for
\* which a work item was enqueued eventually reaches completed or failed, and
\* no job stays in processing or extracting once its last attempt has failed
\* and the failed-handler has written.
LastAttemptFailed ==
  /\ EnqueuedItems # {} /\ calls = {}
  /\ \A i \in EnqueuedItems : items[i].state = "failed"
====
